---- MODULE Spec2Model ----
(***************************************************************************)
(* Model of the AMQ/ESB protocol core: the wire envelope (MsgPayload), its *)
(* signature, the typed message variants, the phase router and the         *)
(* handshake handlers HandleNew / HandleAck.                               *)
(*                                                                         *)
(* Conventions.  A Go pointer is a sequence of length 0 (nil) or 1 (the    *)
(* value pointed to).  A Go map[string]string is a set of <<key, value>>   *)
(* pairs with distinct keys.  A Go error is a string, "" standing for nil. *)
(* A call that dereferences a nil pointer panics: its result carries       *)
(* panicked = TRUE and nothing is returned to the caller.                  *)
(*                                                                         *)
(* Specifications.  Spec: the handlers and the message package, one call   *)
(* at a time.  SpecFlows: two handler calls, statement by statement.       *)
(* SpecBody: MsgBody.Add and ToString.  SpecSign: Signature on envelopes   *)
(* that differ in one field.  SpecClient: Client and its listener.         *)
(* SpecRegistry: the provider registry, one call at a time.  SpecRace: the  *)
(* registry called from two goroutines, statement by statement.  SpecHeap: *)
(* a handler call on envelopes held at addresses.  Each leaves the         *)
(* variables of the others at their initial values.                        *)
(***************************************************************************)
EXTENDS Integers, Sequences, FiniteSets, TLC

\* The handshake handlers: see "state machine" below.
VARIABLES msg, last, chain

\* The provider registry: the package-level map and the calls made on it.
VARIABLES providers, rlog

\* A message body under construction and the calls made on it.
VARIABLES mbody, mlog

\* An envelope that was signed, and the same envelope signed again after a
\* change of one field.
VARIABLES sbase, svariant

\* A Client and its last call.
VARIABLES client, clast

\* Two handshake flows whose handler calls run interleaved.
VARIABLES flows

\* The registry lock and the goroutines that call the registry.
VARIABLES providersMu, routines

\* The envelopes in memory, by address, and the handler call in progress.
VARIABLES heap, frame

handshakeVars == <<msg, last, chain>>

registryVars == <<providers, rlog>>

bodyVars == <<mbody, mlog>>

signVars == <<sbase, svariant>>

clientVars == <<client, clast>>

flowVars == <<flows>>

raceVars == <<providersMu, routines>>

heapVars == <<heap, frame>>

vars == <<handshakeVars, registryVars, bodyVars, signVars, clientVars,
          flowVars, raceVars, heapVars>>

\* ------------------------------------------------------------- bounds
\* time.Now().Unix() is drawn from 1..MaxTime.
MaxTime == 2
\* The registry is followed for at most MaxRegistryCalls calls.
MaxRegistryCalls == 4
\* A message body is followed for at most MaxBodyCalls calls.
MaxBodyCalls == 4
\* A node is configured with 0..MaxPartitions partitions.
MaxPartitions == 2

\* The calls a goroutine makes on the registry.
MaxGoroutineCalls == 2

\* The envelopes that are in memory at a time.
MaxEnvelopes == 3

\* ------------------------------------------------------ message.go enums
NOTICE == "1"
SIMPLEX == "2"
DUPLEX == "3"
\* A category code no constant of the package names (the type is a string).
UnknownCategory == "9"

SenderReq == "1"
ReceiverAck == "2"
SenderAck == "3"
\* A phase code no constant of the package names.
UnknownPhase == "4"

Categories == {NOTICE, SIMPLEX, DUPLEX, UnknownCategory}

Phases == {SenderReq, ReceiverAck, SenderAck, UnknownPhase}

CategoryString(n) ==
    CASE n = "1" -> "NOTICE"
      [] n = "2" -> "SIMPLEX"
      [] n = "3" -> "DUPLEX"
      [] OTHER -> "Unknown"

PhaseString(n) ==
    CASE n = "1" -> "SENDER_REQ"
      [] n = "2" -> "RECEIVER_ACK"
      [] n = "3" -> "SENDER_ACK"
      [] OTHER -> "Unknown"

\* ------------------------------------------------------------ universes
Genres == {"ping", "pay"}

MsgIds == {"m1", "m2"}

QueueNames == {"q1", "q2"}

Times == 1..MaxTime

\* The keys a body may hold, listed in the ascending order of sort.Strings.
\* The middle key holds quote and comma characters.
KeyOrder == <<"a", "a\":\"x\",\"b", "b">>

\* The keys and values of the bodies that envelopes of the handshake carry.
Keys == {"a", "b"}

Vals == {"x"}

\* The keys and values of the bodies that are built and signed on their own.
WideKeys == {KeyOrder[i] : i \in 1..Len(KeyOrder)}

WideVals == {"x", "y"}

\* Errors, by the message the code formats.
NoErr == ""
\* "无效的消息阶段" (invalid message phase)
ErrInvalidPhase == "InvalidPhase"
\* "无效的消息类型" (invalid message category)
ErrInvalidCategory == "InvalidCategory"
\* "非通知类ESB消息" and its two siblings (not a message of this category)
ErrCategoryMismatch == "CategoryMismatch"
\* The error value an application listener returns.
ErrListener == "ListenerError"

\* --------------------------------------------------------------- MsgBody
Nil == <<>>

Ptr(v) == <<v>>

Deref(p) == p[1]

\* Every map[string]string over Keys and Vals.
Maps ==
    {m \in SUBSET (Keys \X Vals) :
        \A p \in m, q \in m : p[1] = q[1] => p = q}

MapKeys(m) == {p[1] : p \in m}

MapGet(m, k) == (CHOOSE p \in m : p[1] = k)[2]

\* NewMessageBody(): a body holding the empty map.
NewMessageBody == Ptr({})

\* (*MsgBody).Add on a non-nil body: stores value under key, overwriting.
Add(mb, key, value) ==
    Ptr({p \in Deref(mb) : p[1] # key} \cup {<<key, value>>})

\* *MsgBody values: nil or a body.
Bodies == {Nil} \cup {Ptr(m) : m \in Maps}

RECURSIVE WriteEntries(_, _, _)
\* The loop of ToString over the sorted keys: i is the next position of
\* KeyOrder, first tells whether no entry has been written yet.
WriteEntries(m, i, first) ==
    IF i > Len(KeyOrder) THEN ""
    ELSE IF KeyOrder[i] \in MapKeys(m)
         THEN (IF first THEN "" ELSE ",")
              \o "\"" \o KeyOrder[i] \o "\":\"" \o MapGet(m, KeyOrder[i]) \o "\""
              \o WriteEntries(m, i + 1, FALSE)
         ELSE WriteEntries(m, i + 1, first)

\* (*MsgBody).ToString on a non-nil receiver.
BodyToString(mb) ==
    IF Cardinality(Deref(mb)) = 0 THEN ""
    ELSE "{" \o WriteEntries(Deref(mb), 1, TRUE) \o "}"

\* The position of a key in the order of sort.Strings.
Rank(k) == CHOOSE i \in 1..Len(KeyOrder) : KeyOrder[i] = k

RECURSIVE Insert(_, _)
\* keys is ascending; k is put before the first key that is greater.
Insert(keys, k) ==
    IF keys = <<>> THEN <<k>>
    ELSE IF Rank(k) < Rank(Head(keys)) THEN <<k>> \o keys
    ELSE <<Head(keys)>> \o Insert(Tail(keys), k)

RECURSIVE SortStringsFrom(_, _)
SortStringsFrom(keys, sorted) ==
    IF keys = <<>> THEN sorted
    ELSE SortStringsFrom(Tail(keys), Insert(sorted, Head(keys)))

\* Faulty variant of SortStrings: the keys stay in iteration order.
SortStringsSkipped(keys) == keys

\* sort.Strings(keys).
SortStrings(keys) == SortStringsFrom(keys, <<>>)

\* The orders in which `for k := range mb.Body` may visit the keys of m: Go
\* leaves the iteration order of a map unspecified.
RangeOrders(m) ==
    {o \in [1..Cardinality(m) -> MapKeys(m)] :
        \A i \in DOMAIN o, j \in DOMAIN o : o[i] = o[j] => i = j}

RECURSIVE WriteKeys(_, _, _)
\* The writing loop of ToString from position i of the sorted key slice.
WriteKeys(m, keys, i) ==
    IF i > Len(keys) THEN ""
    ELSE (IF i > 1 THEN "," ELSE "")
         \o "\"" \o keys[i] \o "\":\"" \o MapGet(m, keys[i]) \o "\""
         \o WriteKeys(m, keys, i + 1)

\* (*MsgBody).ToString on a non-nil receiver, statement by statement, when
\* the range loop visits the keys in the given order.
ToStringRanging(mb, order) ==
    IF Cardinality(Deref(mb)) = 0 THEN ""
    ELSE "{" \o WriteKeys(Deref(mb), SortStrings(order), 1) \o "}"

\* ------------------------------------------------------------ MsgPayload
Payload(cat, genre, id, src, dstNew, dstAck, body, time, phase, sign) ==
    [Category |-> cat, Genre |-> genre, MsgId |-> id, SrcAckQueue |-> src,
     DstNewQueue |-> dstNew, DstAckQueue |-> dstAck, Body |-> body,
     SendTime |-> time, Phase |-> phase, Sign |-> sign]

SetBody(mpl, body) == [mpl EXCEPT !.Body = body]

SetSign(mpl, sign) == [mpl EXCEPT !.Sign = sign]

\* utils.MD5, taken as collision-free: the digest stands for its input.
MD5(s) == "md5(" \o s \o ")"

\* Signature dereferences mpl.Body: it panics on a nil body.
SignaturePanics(mpl) == mpl.Body = Nil

\* Signature(mpl) for a payload whose body is not nil.
Signature(mpl) ==
    MD5("category=" \o CategoryString(mpl.Category)
        \o "type=" \o mpl.Genre
        \o "msgId=" \o mpl.MsgId
        \o "queue=" \o mpl.SrcAckQueue \o mpl.DstAckQueue \o mpl.DstNewQueue
        \o "body=" \o BodyToString(mpl.Body)
        \o "@phase=" \o PhaseString(mpl.Phase)
        \o "@sendTime=" \o ToString(mpl.SendTime)
        \o "@#$dz874&*&*#@@$^&^FS()()!@FSF")


\* Faulty variant of SendQueueName: an unknown phase falls through to the request
\* queue instead of failing.
SendQueueNameDefaulting(mpl) ==
    IF mpl.Phase = ReceiverAck THEN [queue |-> mpl.SrcAckQueue, err |-> NoErr]
    ELSE IF mpl.Phase = SenderAck THEN [queue |-> mpl.DstAckQueue, err |-> NoErr]
    ELSE [queue |-> mpl.DstNewQueue, err |-> NoErr]

\* SendQueueName: the queue an envelope is sent to, by its phase.
SendQueueName(mpl) ==
    IF mpl.Phase = SenderReq THEN [queue |-> mpl.DstNewQueue, err |-> NoErr]
    ELSE IF mpl.Phase = ReceiverAck THEN [queue |-> mpl.SrcAckQueue, err |-> NoErr]
    ELSE IF mpl.Phase = SenderAck THEN [queue |-> mpl.DstAckQueue, err |-> NoErr]
    ELSE [queue |-> "", err |-> ErrInvalidPhase]

\* ------------------------------------------------------ message variants
NewNoticeMessage(id) ==
    [kind |-> "NoticeMessage", genre |-> "", msgId |-> id, Body |-> Nil,
     Destination |-> ""]

NewSimplexMessage(id) ==
    [kind |-> "SimplexMessage", genre |-> "", msgId |-> id, Body |-> Nil,
     Source |-> "", Destination |-> ""]

NewDuplexMessage(id) ==
    [kind |-> "DuplexMessage", genre |-> "", msgId |-> id, Body |-> Nil,
     Source |-> "", DestinationNew |-> "", DestinationAck |-> ""]

\* Faulty variant of ConvertToNotice: the destination is taken from the wrong queue.
ConvertToNoticeFromAckQueue(mpl) ==
    LET m == NewNoticeMessage(mpl.MsgId) IN
    IF mpl.Category # NOTICE THEN [msg |-> m, err |-> ErrCategoryMismatch]
    ELSE [msg |-> [m EXCEPT !.genre = mpl.Genre, !.Body = mpl.Body,
                            !.Destination = mpl.SrcAckQueue],
          err |-> NoErr]

\* Faulty variant of ConvertToSimplex: the category check is missing.
ConvertToSimplexUnchecked(mpl) ==
    [msg |-> [NewSimplexMessage(mpl.MsgId) EXCEPT
                  !.genre = mpl.Genre, !.Body = mpl.Body,
                  !.Destination = mpl.DstNewQueue,
                  !.Source = mpl.SrcAckQueue],
     err |-> NoErr]

\* The conversions return the pair (message, error); on a category mismatch
\* the message is the fresh one that carries the msgId only.
ConvertToNotice(mpl) ==
    LET m == NewNoticeMessage(mpl.MsgId) IN
    IF mpl.Category # NOTICE THEN [msg |-> m, err |-> ErrCategoryMismatch]
    ELSE [msg |-> [m EXCEPT !.genre = mpl.Genre, !.Body = mpl.Body,
                            !.Destination = mpl.DstNewQueue],
          err |-> NoErr]

ConvertToSimplex(mpl) ==
    LET m == NewSimplexMessage(mpl.MsgId) IN
    IF mpl.Category # SIMPLEX THEN [msg |-> m, err |-> ErrCategoryMismatch]
    ELSE [msg |-> [m EXCEPT !.genre = mpl.Genre, !.Body = mpl.Body,
                            !.Destination = mpl.DstNewQueue,
                            !.Source = mpl.SrcAckQueue],
          err |-> NoErr]

ConvertToDuplex(mpl) ==
    LET m == NewDuplexMessage(mpl.MsgId) IN
    IF mpl.Category # DUPLEX THEN [msg |-> m, err |-> ErrCategoryMismatch]
    ELSE [msg |-> [m EXCEPT !.genre = mpl.Genre, !.Body = mpl.Body,
                            !.DestinationNew = mpl.DstNewQueue,
                            !.DestinationAck = mpl.DstAckQueue,
                            !.Source = mpl.SrcAckQueue],
          err |-> NoErr]

\* ---------------------------------------------------- envelope builders
\* A builder fills the fields, then signs: [panicked, mpl], mpl a pointer.
Signed(mpl) ==
    IF SignaturePanics(mpl) THEN [panicked |-> TRUE, mpl |-> Nil]
    ELSE [panicked |-> FALSE, mpl |-> Ptr(SetSign(mpl, Signature(mpl)))]

\* Faulty variant of NewPayload: the reply is addressed to the queue the
\* inbound envelope named as its acknowledgement source.
NewPayloadCrossedQueues(m, phase, now) ==
    Signed(Payload(m.Category, m.Genre, m.MsgId, m.DstNewQueue,
                   m.SrcAckQueue, m.DstAckQueue, m.Body, now, phase, ""))

NewPayload(m, phase, now) ==
    Signed(Payload(m.Category, m.Genre, m.MsgId, m.SrcAckQueue,
                   m.DstNewQueue, m.DstAckQueue, m.Body, now, phase, ""))

NoticePayload(message, now) ==
    Signed(Payload(NOTICE, message.genre, message.msgId, "",
                   message.Destination, "", message.Body, now, SenderReq, ""))

SimplexPayload(message, now) ==
    Signed(Payload(SIMPLEX, message.genre, message.msgId, message.Source,
                   message.Destination, "", message.Body, now, SenderReq, ""))

DuplexPayload(message, now) ==
    Signed(Payload(DUPLEX, message.genre, message.msgId, message.Source,
                   message.DestinationNew, message.DestinationAck,
                   message.Body, now, SenderReq, ""))

\* ------------------------------------------------------------ handler.go
\* A listener is given by the answer it makes to the one callback a handler
\* sends it: [rsp |-> *MsgBody, err |-> error].  OnSenderAckReceived returns
\* the error only.  A handler's outcome is [calls, reply, err, panicked]:
\* the callbacks it invoked in order, the envelope returned (a pointer), the
\* error returned, and whether it panicked instead of returning.
Listeners == [rsp : Bodies, err : {NoErr, ErrListener}]

Return(calls, reply, err) ==
    [calls |-> calls, reply |-> reply, err |-> err, panicked |-> FALSE]

Panic(calls) ==
    [calls |-> calls, reply |-> Nil, err |-> NoErr, panicked |-> TRUE]

OnReceivedCall(m) == [cb |-> "OnReceived", msg |-> m]

OnRecipientAckReceivedCall(genre, id, rsp) ==
    [cb |-> "OnRecipientAckReceived", genre |-> genre, msgId |-> id, rsp |-> rsp]

OnSenderAckReceivedCall(genre, id, rsp) ==
    [cb |-> "OnSenderAckReceived", genre |-> genre, msgId |-> id, rsp |-> rsp]

\* Faulty variant of Reply: the signature is not recomputed after SetBody.
ReplyStaleSign(mpl, calls, listener, phase, now) ==
    IF listener.rsp = Nil THEN Return(calls, Nil, listener.err)
    ELSE LET n == NewPayload(mpl, phase, now) IN
         IF n.panicked THEN Panic(calls)
         ELSE Return(calls, Ptr(SetBody(Deref(n.mpl), listener.rsp)),
                     listener.err)

\* The tail shared by simplexNew, duplexNew and duplexRecipientACK: with a
\* non-nil rsp, NewPayload(mpl, phase), SetBody(rsp), SetSign(Signature).
Reply(mpl, calls, listener, phase, now) ==
    IF listener.rsp = Nil THEN Return(calls, Nil, listener.err)
    ELSE LET n == NewPayload(mpl, phase, now) IN
         IF n.panicked THEN Panic(calls)
         ELSE LET withBody == SetBody(Deref(n.mpl), listener.rsp) IN
              Return(calls, Ptr(SetSign(withBody, Signature(withBody))),
                     listener.err)

\* Faulty variant of noticeNew: the listener is invoked before the phase is checked.
noticeNewListenerFirst(mpl, listener, now) ==
    LET c == ConvertToNotice(mpl) IN
    IF mpl.Phase # SenderReq
    THEN Return(<<OnReceivedCall(c.msg)>>, Nil, ErrInvalidPhase)
    ELSE Return(<<OnReceivedCall(c.msg)>>, Nil, listener.err)

noticeNew(mpl, listener, now) ==
    IF mpl.Phase # SenderReq THEN Return(<<>>, Nil, ErrInvalidPhase)
    ELSE LET c == ConvertToNotice(mpl) IN
         IF c.err # NoErr THEN Return(<<>>, Nil, c.err)
         ELSE Return(<<OnReceivedCall(c.msg)>>, Nil, listener.err)

\* Faulty variant of simplexNew: the phase check is missing.
simplexNewAnyPhase(mpl, listener, now) ==
    LET c == ConvertToSimplex(mpl) IN
    IF c.err # NoErr THEN Return(<<>>, Nil, c.err)
    ELSE Reply(mpl, <<OnReceivedCall(c.msg)>>, listener, ReceiverAck, now)

simplexNew(mpl, listener, now) ==
    IF mpl.Phase # SenderReq THEN Return(<<>>, Nil, ErrInvalidPhase)
    ELSE LET c == ConvertToSimplex(mpl) IN
         IF c.err # NoErr THEN Return(<<>>, Nil, c.err)
         ELSE Reply(mpl, <<OnReceivedCall(c.msg)>>, listener, ReceiverAck, now)

duplexNew(mpl, listener, now) ==
    IF mpl.Phase # SenderReq THEN Return(<<>>, Nil, ErrInvalidPhase)
    ELSE LET c == ConvertToDuplex(mpl) IN
         IF c.err # NoErr THEN Return(<<>>, Nil, c.err)
         ELSE Reply(mpl, <<OnReceivedCall(c.msg)>>, listener, ReceiverAck, now)

\* Faulty variant of simplexRecipientACK: it answers like duplexRecipientACK.
simplexRecipientACKReplying(mpl, listener, now) ==
    IF mpl.Phase # ReceiverAck THEN Return(<<>>, Nil, ErrInvalidPhase)
    ELSE Reply(mpl,
               <<OnRecipientAckReceivedCall(mpl.Genre, mpl.MsgId, mpl.Body)>>,
               listener, SenderAck, now)

simplexRecipientACK(mpl, listener, now) ==
    IF mpl.Phase # ReceiverAck THEN Return(<<>>, Nil, ErrInvalidPhase)
    ELSE Return(<<OnRecipientAckReceivedCall(mpl.Genre, mpl.MsgId, mpl.Body)>>,
                Nil, listener.err)

duplexRecipientACK(mpl, listener, now) ==
    IF mpl.Phase # ReceiverAck THEN Return(<<>>, Nil, ErrInvalidPhase)
    ELSE Reply(mpl,
               <<OnRecipientAckReceivedCall(mpl.Genre, mpl.MsgId, mpl.Body)>>,
               listener, SenderAck, now)

duplexSenderACK(mpl, listener, now) ==
    IF mpl.Phase # SenderAck THEN Return(<<>>, Nil, ErrInvalidPhase)
    ELSE Return(<<OnSenderAckReceivedCall(mpl.Genre, mpl.MsgId, mpl.Body)>>,
                Nil, listener.err)

HandleNew(mpl, listener, now) ==
    IF mpl.Category = NOTICE THEN noticeNew(mpl, listener, now)
    ELSE IF mpl.Category = SIMPLEX THEN simplexNew(mpl, listener, now)
    ELSE IF mpl.Category = DUPLEX THEN duplexNew(mpl, listener, now)
    ELSE Return(<<>>, Nil, ErrInvalidCategory)

HandleAck(mpl, listener, now) ==
    IF mpl.Category = SIMPLEX
    THEN IF mpl.Phase = ReceiverAck
         THEN simplexRecipientACK(mpl, listener, now)
         ELSE Return(<<>>, Nil, ErrInvalidPhase)
    ELSE IF mpl.Category = DUPLEX
    THEN IF mpl.Phase = ReceiverAck
         THEN duplexRecipientACK(mpl, listener, now)
         ELSE IF mpl.Phase = SenderAck
         THEN duplexSenderACK(mpl, listener, now)
         ELSE Return(<<>>, Nil, ErrInvalidPhase)
    ELSE Return(<<>>, Nil, ErrInvalidCategory)

\* --------------------------------------------------------- state machine
\* msg   : the envelope the transport has delivered and no handler has taken
\*         yet (a pointer).
\* last  : the last operation with its input and everything it gave back.
\* chain : the handler calls of the current handshake, oldest first.
\* answer is what the listener gave back, when a callback was invoked.
Rec(op, in, calls, answer, reply, err, panicked, conv, queue) ==
    [op |-> op, in |-> in, calls |-> calls, answer |-> answer,
     reply |-> reply, err |-> err, panicked |-> panicked, conv |-> conv,
     queue |-> queue]

Idle(op) == Rec(op, Nil, <<>>, Nil, Nil, NoErr, FALSE, Nil, "")

Answer(listener, r) == IF r.calls = <<>> THEN Nil ELSE Ptr(listener)

HandlerOps == {"HandleNew", "HandleAck"}

BuilderOps == {"NoticePayload", "SimplexPayload", "DuplexPayload", "NewPayload"}

ConvertOps == {"ConvertToNotice", "ConvertToSimplex", "ConvertToDuplex"}

CallbackNames(calls) == [i \in 1..Len(calls) |-> calls[i].cb]

\* What a handler call adds to the chain.
Step(op, mpl, listener, r) ==
    [entry |-> op, category |-> mpl.Category, phase |-> mpl.Phase,
     msgId |-> mpl.MsgId, cbs |-> CallbackNames(r.calls),
     rsp |-> r.calls # <<>> /\ listener.rsp # Nil,
     reply |-> IF r.reply = Nil THEN Nil
               ELSE Ptr([phase |-> Deref(r.reply).Phase,
                         msgId |-> Deref(r.reply).MsgId]),
     panicked |-> r.panicked]

\* The bodies a sender may have signed before the envelope reached us with
\* body b: b itself, or another body (the envelope was changed after signing).
SignedBodies(b) ==
    (IF b = Nil THEN {} ELSE {b})
    \cup {IF b = NewMessageBody THEN Add(NewMessageBody, "a", "x")
          ELSE NewMessageBody}

\* No envelope has arrived and no handler has run.
HandshakeIdle ==
    /\ msg = Nil
    /\ last = Idle("none")
    /\ chain = <<>>

\* No provider package has registered itself.
RegistryIdle ==
    /\ providers = {}
    /\ rlog = <<>>

\* No message body is under construction.
BodyIdle ==
    /\ mbody = Nil
    /\ mlog = <<>>

\* No envelope has been signed.
SignIdle ==
    /\ sbase = Nil
    /\ svariant = Nil

\* No Client has been built.
ClientIdle ==
    /\ client = Nil
    /\ clast = Nil

\* No flow has started.
FlowsIdle == flows = <<>>

\* No goroutine calls the registry.
RaceIdle ==
    /\ providersMu = 0
    /\ routines = <<>>

\* No envelope is in memory.
HeapIdle ==
    /\ heap = <<>>
    /\ frame = <<>>

Init ==
    /\ RaceIdle
    /\ HeapIdle
    /\ HandshakeIdle
    /\ RegistryIdle
    /\ BodyIdle
    /\ SignIdle
    /\ ClientIdle
    /\ FlowsIdle

\* The transport hands over an envelope decoded from the wire: any field
\* values, the body possibly absent, the signature possibly stale.
Receive ==
    /\ last.op = "none"
    /\ \E cat \in Categories, phase \in Phases, genre \in Genres, id \in MsgIds,
          src \in QueueNames, dstNew \in QueueNames, dstAck \in QueueNames,
          body \in Bodies, time \in Times :
        \E signed \in SignedBodies(body) :
            LET e == Payload(cat, genre, id, src, dstNew, dstAck, body, time,
                             phase, "") IN
            /\ msg' = Ptr(SetSign(e, Signature(SetBody(e, signed))))
            /\ last' = Idle("Receive")
            /\ chain' = <<>>

\* The transport delivers the envelope the last operation returned.
Deliver ==
    /\ last.op \in HandlerOps \cup BuilderOps
    /\ last.reply # Nil
    /\ msg' = last.reply
    /\ last' = Idle("Deliver")
    /\ chain' = chain

DoHandleNew ==
    /\ msg # Nil
    /\ \E listener \in Listeners, now \in Times :
        LET r == HandleNew(Deref(msg), listener, now) IN
        /\ last' = Rec("HandleNew", msg, r.calls, Answer(listener, r),
                       r.reply, r.err, r.panicked, Nil, "")
        /\ chain' = Append(chain, Step("HandleNew", Deref(msg), listener, r))
    /\ msg' = Nil

DoHandleAck ==
    /\ msg # Nil
    /\ \E listener \in Listeners, now \in Times :
        LET r == HandleAck(Deref(msg), listener, now) IN
        /\ last' = Rec("HandleAck", msg, r.calls, Answer(listener, r),
                       r.reply, r.err, r.panicked, Nil, "")
        /\ chain' = Append(chain, Step("HandleAck", Deref(msg), listener, r))
    /\ msg' = Nil

\* The outbound path: a typed message is wrapped into an envelope.
Built(op, b) ==
    /\ last' = Rec(op, Nil, <<>>, Nil, b.mpl, NoErr, b.panicked, Nil, "")
    /\ msg' = Nil
    /\ chain' = <<>>

DoNoticePayload ==
    /\ last.op = "none"
    /\ \E genre \in Genres, id \in MsgIds, dst \in QueueNames, body \in Bodies,
       now \in Times :
        Built("NoticePayload",
              NoticePayload([NewNoticeMessage(id) EXCEPT !.genre = genre,
                                 !.Body = body, !.Destination = dst], now))

DoSimplexPayload ==
    /\ last.op = "none"
    /\ \E genre \in Genres, id \in MsgIds, src \in QueueNames, dst \in QueueNames,
       body \in Bodies, now \in Times :
        Built("SimplexPayload",
              SimplexPayload([NewSimplexMessage(id) EXCEPT !.genre = genre,
                                  !.Body = body, !.Source = src,
                                  !.Destination = dst], now))

DoDuplexPayload ==
    /\ last.op = "none"
    /\ \E genre \in Genres, id \in MsgIds, src \in QueueNames,
       dstNew \in QueueNames, dstAck \in QueueNames, body \in Bodies,
       now \in Times :
        Built("DuplexPayload",
              DuplexPayload([NewDuplexMessage(id) EXCEPT !.genre = genre,
                                 !.Body = body, !.Source = src,
                                 !.DestinationNew = dstNew,
                                 !.DestinationAck = dstAck], now))

\* NewPayload applied to the delivered envelope, for any phase.
DoNewPayload ==
    /\ msg # Nil
    /\ \E phase \in Phases, now \in Times :
        LET b == NewPayload(Deref(msg), phase, now) IN
        last' = Rec("NewPayload", msg, <<>>, Nil, b.mpl, NoErr, b.panicked,
                   Nil, "")
    /\ msg' = Nil
    /\ chain' = <<>>

\* The three conversions applied to the delivered envelope.
Converted(op, c) ==
    /\ last' = Rec(op, msg, <<>>, Nil, Nil, c.err, FALSE, Ptr(c.msg), "")
    /\ msg' = Nil
    /\ chain' = <<>>

DoConvertToNotice ==
    /\ msg # Nil
    /\ Converted("ConvertToNotice", ConvertToNotice(Deref(msg)))

DoConvertToSimplex ==
    /\ msg # Nil
    /\ Converted("ConvertToSimplex", ConvertToSimplex(Deref(msg)))

DoConvertToDuplex ==
    /\ msg # Nil
    /\ Converted("ConvertToDuplex", ConvertToDuplex(Deref(msg)))

\* The phase router applied to the delivered envelope.
DoSendQueueName ==
    /\ msg # Nil
    /\ LET q == SendQueueName(Deref(msg)) IN
       last' = Rec("SendQueueName", msg, <<>>, Nil, Nil, q.err, FALSE, Nil,
                   q.queue)
    /\ msg' = Nil
    /\ chain' = <<>>

\* The variables the handshake handlers never touch.
NotHandshake == <<registryVars, bodyVars, signVars, clientVars, flowVars,
    raceVars, heapVars>>

Next ==
    \/ Receive /\ UNCHANGED NotHandshake
    \/ Deliver /\ UNCHANGED NotHandshake
    \/ DoHandleNew /\ UNCHANGED NotHandshake
    \/ DoHandleAck /\ UNCHANGED NotHandshake
    \/ DoNoticePayload /\ UNCHANGED NotHandshake
    \/ DoSimplexPayload /\ UNCHANGED NotHandshake
    \/ DoDuplexPayload /\ UNCHANGED NotHandshake
    \/ DoNewPayload /\ UNCHANGED NotHandshake
    \/ DoConvertToNotice /\ UNCHANGED NotHandshake
    \/ DoConvertToSimplex /\ UNCHANGED NotHandshake
    \/ DoConvertToDuplex /\ UNCHANGED NotHandshake
    \/ DoSendQueueName /\ UNCHANGED NotHandshake

Spec == Init /\ [][Next]_vars

\* ============================================ provider registry (part_000)
\* providers : the package-level map, a set of <<key, provider>> pairs.
\* rlog      : the calls made so far, oldest first, each with the map before
\*             and after it and what it gave back.
ProviderKeys == {"kafka", "nats"}

\* The provider implementations a package may register.
ProviderImpls == {"P1", "P2"}

\* A Provider interface value: nil or an implementation.
ProviderArgs == {Nil} \cup {Ptr(p) : p \in ProviderImpls}

\* providers[key], nil when the key is absent.
Lookup(reg, key) ==
    IF key \in MapKeys(reg) THEN Ptr(MapGet(reg, key)) ELSE Nil

\* Faulty variant of Register: a second registration replaces the first.
RegisterOverwriting(reg, key, provider) ==
    IF provider = Nil THEN [panicked |-> TRUE, providers |-> reg]
    ELSE [panicked |-> FALSE,
          providers |-> {q \in reg : q[1] # key}
                        \cup {<<key, Deref(provider)>>}]

\* Register, under providersMu: panics on a nil provider and on a key
\* already present, and otherwise stores the provider.
Register(reg, key, provider) ==
    IF provider = Nil THEN [panicked |-> TRUE, providers |-> reg]
    ELSE IF key \in MapKeys(reg) THEN [panicked |-> TRUE, providers |-> reg]
    ELSE [panicked |-> FALSE,
          providers |-> reg \cup {<<key, Deref(provider)>>}]

Read(reg, key) == Lookup(reg, key)

RegistryCall(op, key, arg, result, panicked, before, after) ==
    [op |-> op, key |-> key, arg |-> arg, result |-> result,
     panicked |-> panicked, before |-> before, after |-> after]

DoRegister ==
    /\ Len(rlog) < MaxRegistryCalls
    /\ \E key \in ProviderKeys, provider \in ProviderArgs :
        LET r == Register(providers, key, provider) IN
        /\ providers' = r.providers
        /\ rlog' = Append(rlog, RegistryCall("Register", key, provider, Nil,
                                             r.panicked, providers,
                                             r.providers))

DoRead ==
    /\ Len(rlog) < MaxRegistryCalls
    /\ \E key \in ProviderKeys :
        /\ rlog' = Append(rlog, RegistryCall("Read", key, Nil,
                                             Read(providers, key), FALSE,
                                             providers, providers))
        /\ providers' = providers

NotRegistry == <<handshakeVars, bodyVars, signVars, clientVars, flowVars,
    raceVars, heapVars>>

RegistryInit ==
    /\ RaceIdle
    /\ HeapIdle
    /\ RegistryIdle
    /\ HandshakeIdle
    /\ BodyIdle
    /\ SignIdle
    /\ ClientIdle
    /\ FlowsIdle

RegistryNext ==
    \/ DoRegister /\ UNCHANGED NotRegistry
    \/ DoRead /\ UNCHANGED NotRegistry

SpecRegistry == RegistryInit /\ [][RegistryNext]_vars

\* ================================================ MsgBody (message.go)
\* mbody : the *MsgBody under construction.
\* mlog  : the calls made on it, oldest first; a ToString call is recorded
\*         with the order in which its range loop visited the keys.
BodyCall(op, key, value, order, result) ==
    [op |-> op, key |-> key, value |-> value, order |-> order,
     result |-> result]

DoAdd ==
    /\ Len(mlog) < MaxBodyCalls
    /\ \E key \in WideKeys, value \in WideVals :
        /\ mbody' = Add(mbody, key, value)
        /\ mlog' = Append(mlog, BodyCall("Add", key, value, <<>>, ""))

DoToString ==
    /\ Len(mlog) < MaxBodyCalls
    /\ \E order \in RangeOrders(Deref(mbody)) :
        mlog' = Append(mlog, BodyCall("ToString", "", "", order,
                                      ToStringRanging(mbody, order)))
    /\ mbody' = mbody

NotBody == <<handshakeVars, registryVars, signVars, clientVars, flowVars,
    raceVars, heapVars>>

BodyInit ==
    /\ RaceIdle
    /\ HeapIdle
    /\ mbody = NewMessageBody
    /\ mlog = <<>>
    /\ HandshakeIdle
    /\ RegistryIdle
    /\ SignIdle
    /\ ClientIdle
    /\ FlowsIdle

BodyNext ==
    \/ DoAdd /\ UNCHANGED NotBody
    \/ DoToString /\ UNCHANGED NotBody

SpecBody == BodyInit /\ [][BodyNext]_vars

\* ============================================== Signature (message.go)
\* sbase    : an envelope with the signature Signature gave for it.
\* svariant : the field that was then changed ("none" when the envelope was
\*            signed again as it is) and the changed envelope with the
\*            signature Signature gave for it.
\* A second phase code no constant of the package names.
OtherUnknownPhase == "5"

SignPhases == Phases \cup {OtherUnknownPhase}

\* The bodies that are signed: every map over WideKeys with one value.  A
\* nil body is not signed at all: Signature panics on it.
SignBodies ==
    {Ptr(m) : m \in {m \in SUBSET (WideKeys \X {"x"}) :
                        \A q \in m, r \in m : q[1] = r[1] => q = r}}

SignedFields ==
    {"Body", "Phase", "SendTime", "SrcAckQueue", "DstAckQueue", "DstNewQueue",
     "Genre", "MsgId"}

\* The values a field of a signed envelope may take.
FieldValues(field) ==
    CASE field = "Body" -> SignBodies
      [] field = "Phase" -> SignPhases
      [] field = "SendTime" -> Times
      [] field \in {"SrcAckQueue", "DstAckQueue", "DstNewQueue"} -> QueueNames
      [] field = "Genre" -> Genres
      [] field = "MsgId" -> MsgIds

DoSignature ==
    /\ sbase = Nil
    /\ \E genre \in Genres, id \in MsgIds, src \in QueueNames,
          dstNew \in QueueNames, dstAck \in QueueNames, b \in SignBodies,
          time \in Times, phase \in SignPhases :
        LET e == Payload(DUPLEX, genre, id, src, dstNew, dstAck, b, time,
                         phase, "") IN
        sbase' = Ptr(SetSign(e, Signature(e)))
    /\ svariant' = Nil

\* The same envelope is signed once more.
DoSignatureAgain ==
    /\ sbase # Nil
    /\ svariant = Nil
    /\ svariant' = Ptr([field |-> "none",
                        mpl |-> SetSign(Deref(sbase), Signature(Deref(sbase)))])
    /\ sbase' = sbase

\* One field takes another value and the envelope is signed.
DoSignatureChanged ==
    /\ sbase # Nil
    /\ svariant = Nil
    /\ \E field \in SignedFields :
        \E value \in FieldValues(field) \ {Deref(sbase)[field]} :
            LET e == [Deref(sbase) EXCEPT ![field] = value] IN
            svariant' = Ptr([field |-> field, mpl |-> SetSign(e, Signature(e))])
    /\ sbase' = sbase

NotSign == <<handshakeVars, registryVars, bodyVars, clientVars, flowVars,
    raceVars, heapVars>>

SignInit ==
    /\ RaceIdle
    /\ HeapIdle
    /\ SignIdle
    /\ HandshakeIdle
    /\ RegistryIdle
    /\ BodyIdle
    /\ ClientIdle
    /\ FlowsIdle

SignNext ==
    \/ DoSignature /\ UNCHANGED NotSign
    \/ DoSignatureAgain /\ UNCHANGED NotSign
    \/ DoSignatureChanged /\ UNCHANGED NotSign

SpecSign == SignInit /\ [][SignNext]_vars

\* ======================================================= node (node.go)
BIZ == 0
FUND == 1
OPT == 2

NodeString(n) ==
    IF n < BIZ \/ n > OPT THEN "Unknown"
    ELSE <<"biz", "fund", "opt">>[n + 1]

\* Node.IsValid: the error, NoErr for BIZ, FUND and OPT.
NodeIsValid(n) ==
    IF n \in {BIZ, FUND, OPT} THEN NoErr ELSE "invalid leave type"

GetNode(name) ==
    IF name = NodeString(BIZ) THEN BIZ
    ELSE IF name = NodeString(FUND) THEN FUND
    ELSE IF name = NodeString(OPT) THEN OPT
    ELSE -1

\* ===================================================== Client (client.go)
\* client : the *Client; its provider field stands for the transport and
\*          holds the Listen calls the transport has received.
\* clast  : the last call made on the client: the client before the call,
\*          the arguments and what the call gave back.
\* "[AMQ-Client-%s]该客户端已启动，无法多次启动" (already started)
ErrStarted == "ClientAlreadyStarted"
\* "AMQ消息队列名称不符合规范" (queue name does not follow the rules)
ErrQueueName == "InvalidQueueName"
\* "此类型AMQ消息的处理器接口定义:无" (no processor for this genre)
ErrNoProcessor == "NoProcessorRegistered"
\* The errors a transport returns from Listen and from Send.
ErrListen == "ListenFailed"
ErrSend == "SendFailed"

SystemId == "0001"

\* ------------------------------------------------- queueNamePattern
Char(str, i) == SubSeq(str, i, i)

IsDigit(c) == c \in {"0", "1", "2", "3", "4", "5", "6", "7", "8", "9"}

\* `sys_amq_\d{4}_` matches str from position i on.
HeadMatchesAt(str, i) ==
    /\ i + 12 <= Len(str)
    /\ SubSeq(str, i, i + 7) = "sys_amq_"
    /\ \A j \in (i + 8)..(i + 11) : IsDigit(Char(str, j))
    /\ Char(str, i + 12) = "_"

\* `_p\d` matches str from position j on.
PartitionSuffixAt(str, j) ==
    /\ j + 2 <= Len(str)
    /\ SubSeq(str, j, j + 1) = "_p"
    /\ IsDigit(Char(str, j + 2))

\* The positions where `_p\d+` may start once `(sys_amq_\d{4})_(.+)` has
\* begun at i with at least one character in the second group.
SuffixStarts(str, i) ==
    {j \in (i + 14)..Len(str) : PartitionSuffixAt(str, j)}

\* The pattern matches str beginning at i.  The expression is not anchored.
MatchesAt(pattern, str, i) ==
    /\ HeadMatchesAt(str, i)
    /\ IF pattern = "single" THEN i + 13 <= Len(str)
       ELSE SuffixStarts(str, i) # {}

\* FindStringSubmatch: nil without a match, otherwise the two groups of the
\* leftmost match, the second group taken as long as possible.
FindStringSubmatch(pattern, str) ==
    LET starts == {i \in 1..Len(str) : MatchesAt(pattern, str, i)} IN
    IF starts = {} THEN Nil
    ELSE LET i == CHOOSE x \in starts : \A y \in starts : x <= y
             j == IF pattern = "single" THEN Len(str) + 1
                  ELSE CHOOSE x \in SuffixStarts(str, i) :
                           \A y \in SuffixStarts(str, i) : y <= x
         IN Ptr(<<SubSeq(str, i, i + 11), SubSeq(str, i + 13, j - 1)>>)

\* ------------------------------------------------------------ newClient
\* The provider named by the configuration exists; partitions is the
\* configured number (the field's zero value when the key is absent).
newClient(partitions) ==
    [systemId |-> SystemId, node |-> BIZ, partitions |-> partitions,
     queueNamePattern |-> IF partitions = 1 THEN "single" ELSE "partitioned",
     provider |-> [listens |-> <<>>],
     processorMap |-> {},
     started |-> FALSE]

\* ---------------------------------------------------------- AddProcessor
\* A Processor: the genre GetType returns and the implementation.
Processors ==
    {[type |-> "ping", impl |-> "A"], [type |-> "ping", impl |-> "B"],
     [type |-> "pay", impl |-> "A"]}

ProcessorLists ==
    {<<>>} \cup {<<x>> : x \in Processors}
    \cup {<<x, y>> : x \in Processors, y \in Processors}

\* c.processorMap[genre], nil when absent.
ProcessorOf(c, genre) == Lookup(c.processorMap, genre)

RECURSIVE PutAll(_, _)
\* The loop of AddProcessor: processorMap[p.GetType()] = p, in order.
PutAll(m, processors) ==
    IF processors = <<>> THEN m
    ELSE LET x == Head(processors) IN
         PutAll({q \in m : q[1] # x.type} \cup {<<x.type, x.impl>>},
                Tail(processors))

\* Faulty variant of AddProcessor: processors are added after Start too.
AddProcessorAnyTime(c, processors) ==
    [client |-> [c EXCEPT !.processorMap = PutAll(c.processorMap, processors)],
     printed |-> FALSE]

AddProcessor(c, processors) ==
    IF ~c.started
    THEN [client |-> [c EXCEPT !.processorMap =
                                   PutAll(c.processorMap, processors)],
          printed |-> FALSE]
    ELSE [client |-> c, printed |-> TRUE]

\* ------------------------------------------------------- queue names
BuildQueueName(c, systemId) ==
    "sys_amq_" \o systemId \o "_" \o NodeString(c.node)

BuildQueueNameByPartition(c, systemId, partition) ==
    "sys_amq_" \o systemId \o "_" \o NodeString(c.node) \o "_p"
    \o ToString(partition)

\* ----------------------------------------------------------------- Start
\* The partition lists given to Start.
PartitionLists ==
    LET indexes == (-1)..MaxPartitions IN
    {<<>>} \cup {<<v>> : v \in indexes}
    \cup {<<v, w>> : v \in indexes, w \in indexes}

\* The check of the partition list panics.
StartPanics(c, partitions) ==
    \E i \in 1..Len(partitions) :
        LET v == partitions[i] IN
        v # 0 /\ v <= 0 /\ c.partitions > v

\* The queues Start subscribes to, in order.
StartQueues(c, partitions) ==
    IF c.partitions = 1 THEN <<BuildQueueName(c, c.systemId)>>
    ELSE IF Len(partitions) = 0
    THEN [i \in 1..c.partitions |->
              BuildQueueNameByPartition(c, c.systemId, i - 1)]
    ELSE [i \in 1..Len(partitions) |->
              BuildQueueNameByPartition(c, c.systemId, partitions[i])]

\* provider.Listen(queue, listener): (closer, err).
Listen(queue, fails) ==
    IF fails THEN [closer |-> Nil, err |-> ErrListen]
    ELSE [closer |-> Ptr(queue), err |-> NoErr]

\* What Start gives: the client after the call, (closer, err), or a panic.
Started(c, closer, err, panicked) ==
    [client |-> c, closer |-> closer, err |-> err, panicked |-> panicked]

\* The Listen calls of Start; failing holds the positions of the calls that
\* the transport fails.  closer and err are assigned by every call.
Subscribe(c, partitions, failing) ==
    LET queues == StartQueues(c, partitions)
        n == Len(queues)
        calls == [i \in 1..n |->
                     [queue |-> queues[i], ok |-> i \notin failing]]
        final == IF n = 0 THEN [closer |-> Nil, err |-> NoErr]
                 ELSE Listen(queues[n], n \in failing)
    IN Started([c EXCEPT !.provider.listens = c.provider.listens \o calls],
               final.closer, final.err, FALSE)

\* Faulty variant of Start: the started flag is not consulted.
StartRepeatable(c, partitions, failing) ==
    LET s == [c EXCEPT !.started = TRUE] IN
    IF StartPanics(s, partitions) THEN Started(s, Nil, NoErr, TRUE)
    ELSE Subscribe(s, partitions, failing)

Start(c, partitions, failing) ==
    IF c.started THEN Started(c, Nil, ErrStarted, FALSE)
    ELSE LET s == [c EXCEPT !.started = TRUE] IN
         IF StartPanics(s, partitions) THEN Started(s, Nil, NoErr, TRUE)
         ELSE Subscribe(s, partitions, failing)

\* ------------------------------------------------------------------ Send
\* The queue names messageCheck collects, by the message's type.
NameList(m) ==
    CASE m.kind = "NoticeMessage" -> <<m.Destination>>
      [] m.kind = "SimplexMessage" -> <<m.Source, m.Destination>>
      [] m.kind = "DuplexMessage" ->
             <<m.Source, m.DestinationNew, m.DestinationAck>>
      [] OTHER -> <<>>

RECURSIVE CheckNames(_, _, _, _)
\* The loop of messageCheck from position i: the error, NoErr when every
\* name passes, and the node names logged as wrong on the way.
CheckNames(c, names, i, logged) ==
    IF i > Len(names) THEN [err |-> NoErr, logged |-> logged]
    ELSE LET m == FindStringSubmatch(c.queueNamePattern, names[i]) IN
         IF m = Nil THEN [err |-> ErrQueueName, logged |-> logged]
         ELSE LET nodeName == Deref(m)[2] IN
              IF NodeIsValid(GetNode(nodeName)) # NoErr
              THEN CheckNames(c, names, i + 1, Append(logged, nodeName))
              ELSE CheckNames(c, names, i + 1, logged)

messageCheck(c, m) == CheckNames(c, NameList(m), 1, <<>>)

\* Send: sendErr is what provider.Send returns when it is called.
Send(c, m, sendErr) ==
    LET check == messageCheck(c, m) IN
    IF check.err # NoErr
    THEN [err |-> check.err, sent |-> FALSE, logged |-> check.logged]
    ELSE [err |-> sendErr, sent |-> TRUE, logged |-> check.logged]

\* ------------------------------------------------ defaultMessageListener
\* What a processor method gives back when it is invoked.
ProcessorAnswers == [rsp : {Nil, NewMessageBody}, err : {NoErr, ErrListener}]

GetGenre(m) ==
    IF m.kind \in {"NoticeMessage", "SimplexMessage", "DuplexMessage"}
    THEN m.genre ELSE ""

Dispatched(invoked, rsp, err) ==
    [invoked |-> invoked, rsp |-> rsp, err |-> err]

ListenerOnReceived(c, m, answer) ==
    IF ProcessorOf(c, GetGenre(m)) # Nil
    THEN Dispatched(TRUE, answer.rsp, answer.err)
    ELSE Dispatched(FALSE, Nil, ErrNoProcessor)

ListenerOnRecipientAckReceived(c, genre, answer) ==
    IF ProcessorOf(c, genre) # Nil
    THEN Dispatched(TRUE, answer.rsp, answer.err)
    ELSE Dispatched(FALSE, Nil, ErrNoProcessor)

\* OnSenderAckReceived returns the error only.
ListenerOnSenderAckReceived(c, genre, answer) ==
    IF ProcessorOf(c, genre) # Nil
    THEN Dispatched(TRUE, Nil, answer.err)
    ELSE Dispatched(FALSE, Nil, NoErr)

\* ------------------------------------------------------- client actions
ClientCall(op, before, arg, res) ==
    [op |-> op, before |-> before, arg |-> arg, res |-> res]

\* A call that leaves the client as it was is not followed further: the
\* client is in a state from which every call is taken already.
Fresh == clast = Nil \/ Deref(clast).before # client

DoNewClient ==
    /\ client = Nil
    /\ \E partitions \in 0..MaxPartitions :
        client' = Ptr(newClient(partitions))
    /\ clast' = Ptr(ClientCall("newClient", Nil, Nil, Nil))

DoAddProcessor ==
    /\ client # Nil /\ Fresh
    /\ \E processors \in ProcessorLists :
        LET r == AddProcessor(Deref(client), processors) IN
        /\ client' = Ptr(r.client)
        /\ clast' = Ptr(ClientCall("AddProcessor", client, processors,
                                   [printed |-> r.printed]))

DoStart ==
    /\ client # Nil /\ Fresh
    /\ \E partitions \in PartitionLists :
        \E failing \in SUBSET (1..Len(StartQueues(Deref(client), partitions))) :
            LET r == Start(Deref(client), partitions, failing) IN
            /\ client' = Ptr(r.client)
            /\ clast' = Ptr(ClientCall("Start", client, partitions,
                                       [closer |-> r.closer, err |-> r.err,
                                        panicked |-> r.panicked]))

\* The queue names given to Send: built by the client's own functions, with
\* an unknown node, with a missing digit, with text before the prefix, with
\* no digit after _p, and the empty name.
SentNames ==
    {"sys_amq_0001_biz", "sys_amq_0002_fund_p1", "sys_amq_0001_unknownnode",
     "sys_amq_001_opt", "xsys_amq_0001_opt_p0", "sys_amq_0001_biz_p", ""}

\* The names tried at every position of a message.
PlacedNames ==
    {"sys_amq_0001_biz", "sys_amq_0001_unknownnode", "sys_amq_001_opt"}

SentMessages ==
    {[NewNoticeMessage("m1") EXCEPT !.Destination = d] : d \in SentNames}
    \cup {[NewSimplexMessage("m1") EXCEPT !.Source = src, !.Destination = d] :
              src \in PlacedNames, d \in PlacedNames}
    \cup {[NewDuplexMessage("m1") EXCEPT !.Source = src,
                !.DestinationNew = d, !.DestinationAck = a] :
              src \in PlacedNames, d \in PlacedNames, a \in PlacedNames}
    \cup {[kind |-> "string"]}

DoSend ==
    /\ client # Nil /\ Fresh
    /\ \E m \in SentMessages, sendErr \in {NoErr, ErrSend} :
        clast' = Ptr(ClientCall("Send", client, m,
                                Send(Deref(client), m, sendErr)))
    /\ client' = client

\* The transport calls the listener only on a queue it listens to.
Listening ==
    /\ client # Nil
    /\ \E i \in 1..Len(Deref(client).provider.listens) :
           Deref(client).provider.listens[i].ok

DoListenerOnReceived ==
    /\ Listening /\ Fresh
    /\ \E genre \in Genres, answer \in ProcessorAnswers :
        LET m == [NewSimplexMessage("m1") EXCEPT !.genre = genre] IN
        clast' = Ptr(ClientCall("OnReceived", client,
                                [genre |-> genre, answer |-> answer],
                                ListenerOnReceived(Deref(client), m, answer)))
    /\ client' = client

DoListenerOnRecipientAckReceived ==
    /\ Listening /\ Fresh
    /\ \E genre \in Genres, answer \in ProcessorAnswers :
        clast' = Ptr(ClientCall("OnRecipientAckReceived", client,
                                [genre |-> genre, answer |-> answer],
                                ListenerOnRecipientAckReceived(Deref(client),
                                                               genre, answer)))
    /\ client' = client

DoListenerOnSenderAckReceived ==
    /\ Listening /\ Fresh
    /\ \E genre \in Genres, answer \in ProcessorAnswers :
        clast' = Ptr(ClientCall("OnSenderAckReceived", client,
                                [genre |-> genre, answer |-> answer],
                                ListenerOnSenderAckReceived(Deref(client),
                                                            genre, answer)))
    /\ client' = client

NotClient == <<handshakeVars, registryVars, bodyVars, signVars, flowVars,
    raceVars, heapVars>>

ClientInit ==
    /\ RaceIdle
    /\ HeapIdle
    /\ ClientIdle
    /\ HandshakeIdle
    /\ RegistryIdle
    /\ BodyIdle
    /\ SignIdle
    /\ FlowsIdle

ClientNext ==
    \/ DoNewClient /\ UNCHANGED NotClient
    \/ DoAddProcessor /\ UNCHANGED NotClient
    \/ DoStart /\ UNCHANGED NotClient
    \/ DoSend /\ UNCHANGED NotClient
    \/ DoListenerOnReceived /\ UNCHANGED NotClient
    \/ DoListenerOnRecipientAckReceived /\ UNCHANGED NotClient
    \/ DoListenerOnSenderAckReceived /\ UNCHANGED NotClient

SpecClient == ClientInit /\ [][ClientNext]_vars

\* ============================== handler calls, statement by statement
\* flows[f] : the handler call of handshake flow f that is in progress, with
\*            the locals of its goroutine: the position (pc), the entry
\*            point and the routine reached, the inbound envelope (mpl), the
\*            callbacks made (calls) and the listener's answer, the reply
\*            under construction (returnMsg), and what the call returned.
\*            mixed tells whether a step of the call was taken while the
\*            other flow's call was in progress.
FlowIds == {1, 2}

Other(f) == 3 - f

\* Each flow has its own msgId.
FlowMsgId(f) == IF f = 1 THEN "m1" ELSE "m2"

FlowAnswers ==
    [rsp : {Nil, Add(NewMessageBody, "a", "x")}, err : {NoErr, ErrListener}]

IdleFlow ==
    [pc |-> "idle", entry |-> "", routine |-> "", mpl |-> Nil, calls |-> <<>>,
     answer |-> Nil, now |-> 0, returnMsg |-> Nil, result |-> Nil,
     mixed |-> FALSE]

InProgress(f) == flows[f].pc \notin {"idle", "done"}

\* Faulty variant of Inbound: the envelope is kept in a variable that the
\* calls share, so a call in progress sees the other call's envelope.
InboundShared(f) ==
    IF InProgress(Other(f)) THEN Deref(flows[Other(f)].mpl)
    ELSE Deref(flows[f].mpl)

\* The envelope the call was given: the parameter msg / mpl.
Inbound(f) == Deref(flows[f].mpl)

\* The routine HandleNew / HandleAck hands the envelope to, or the error.
Route(entry, mpl) ==
    IF entry = "HandleNew"
    THEN IF mpl.Category = NOTICE THEN [routine |-> "noticeNew", err |-> NoErr]
         ELSE IF mpl.Category = SIMPLEX
         THEN [routine |-> "simplexNew", err |-> NoErr]
         ELSE IF mpl.Category = DUPLEX
         THEN [routine |-> "duplexNew", err |-> NoErr]
         ELSE [routine |-> "", err |-> ErrInvalidCategory]
    ELSE IF mpl.Category = SIMPLEX
         THEN IF mpl.Phase = ReceiverAck
              THEN [routine |-> "simplexRecipientACK", err |-> NoErr]
              ELSE [routine |-> "", err |-> ErrInvalidPhase]
         ELSE IF mpl.Category = DUPLEX
         THEN IF mpl.Phase = ReceiverAck
              THEN [routine |-> "duplexRecipientACK", err |-> NoErr]
              ELSE IF mpl.Phase = SenderAck
              THEN [routine |-> "duplexSenderACK", err |-> NoErr]
              ELSE [routine |-> "", err |-> ErrInvalidPhase]
         ELSE [routine |-> "", err |-> ErrInvalidCategory]

\* The phase a routine requires of its envelope.
RequiredPhase(routine) ==
    CASE routine \in {"noticeNew", "simplexNew", "duplexNew"} -> SenderReq
      [] routine \in {"simplexRecipientACK", "duplexRecipientACK"} -> ReceiverAck
      [] routine = "duplexSenderACK" -> SenderAck

\* The conversion a routine makes before it calls the listener.
Conversion(routine, mpl) ==
    CASE routine = "noticeNew" -> ConvertToNotice(mpl)
      [] routine = "simplexNew" -> ConvertToSimplex(mpl)
      [] routine = "duplexNew" -> ConvertToDuplex(mpl)
      [] OTHER -> [msg |-> Nil, err |-> NoErr]

\* The callback a routine makes.
CallbackOf(routine, mpl) ==
    CASE routine \in {"noticeNew", "simplexNew", "duplexNew"} ->
             OnReceivedCall(Conversion(routine, mpl).msg)
      [] routine \in {"simplexRecipientACK", "duplexRecipientACK"} ->
             OnRecipientAckReceivedCall(mpl.Genre, mpl.MsgId, mpl.Body)
      [] routine = "duplexSenderACK" ->
             OnSenderAckReceivedCall(mpl.Genre, mpl.MsgId, mpl.Body)

\* The phase of the reply a routine builds; nil for a routine that returns
\* no envelope.
ReplyPhase(routine) ==
    CASE routine \in {"simplexNew", "duplexNew"} -> Ptr(ReceiverAck)
      [] routine = "duplexRecipientACK" -> Ptr(SenderAck)
      [] OTHER -> Nil

\* Flow f takes a step that changes its record by the given fields.
Advance(f, next) ==
    flows' = [flows EXCEPT ![f] =
                 [next EXCEPT !.mixed = flows[f].mixed \/ InProgress(Other(f))]]

Finish(f, result) ==
    Advance(f, [flows[f] EXCEPT !.pc = "done", !.result = Ptr(result)])

\* The transport calls HandleNew or HandleAck with an envelope of flow f.
FlowCall(f) ==
    /\ flows[f].pc = "idle"
    /\ \E entry \in HandlerOps, cat \in {NOTICE, SIMPLEX, DUPLEX},
          phase \in {SenderReq, ReceiverAck, SenderAck}, b \in {Nil, NewMessageBody} :
        LET e == Payload(cat, "ping", FlowMsgId(f), "q1", "q2", "q1", b, 1,
                         phase, "") IN
        Advance(f, [IdleFlow EXCEPT !.pc = "route", !.entry = entry,
                                    !.mpl = Ptr(e)])

\* The entry point picks the routine; the routine checks the phase and
\* converts the envelope.
FlowRoute(f) ==
    /\ flows[f].pc = "route"
    /\ LET r == Route(flows[f].entry, Inbound(f)) IN
       IF r.err # NoErr THEN Finish(f, Return(<<>>, Nil, r.err))
       ELSE IF Inbound(f).Phase # RequiredPhase(r.routine)
       THEN Finish(f, Return(<<>>, Nil, ErrInvalidPhase))
       ELSE IF Conversion(r.routine, Inbound(f)).err # NoErr
       THEN Finish(f, Return(<<>>, Nil, Conversion(r.routine, Inbound(f)).err))
       ELSE Advance(f, [flows[f] EXCEPT !.pc = "listener",
                                        !.routine = r.routine])

\* The routine calls the listener and looks at rsp.
FlowListener(f) ==
    /\ flows[f].pc = "listener"
    /\ \E answer \in FlowAnswers :
        LET calls == <<CallbackOf(flows[f].routine, Inbound(f))>>
            called == [flows[f] EXCEPT !.calls = calls, !.answer = Ptr(answer)]
        IN
        IF ReplyPhase(flows[f].routine) = Nil \/ answer.rsp = Nil
        THEN Advance(f, [called EXCEPT !.pc = "done",
                             !.result = Ptr(Return(calls, Nil, answer.err))])
        ELSE Advance(f, [called EXCEPT !.pc = "NewPayload"])

\* returnMsg := message.NewPayload(mpl, phase)
FlowNewPayload(f) ==
    /\ flows[f].pc = "NewPayload"
    /\ \E now \in Times :
        LET n == NewPayload(Inbound(f), Deref(ReplyPhase(flows[f].routine)),
                            now) IN
        IF n.panicked
        THEN Advance(f, [flows[f] EXCEPT !.pc = "done", !.now = now,
                             !.result = Ptr(Panic(flows[f].calls))])
        ELSE Advance(f, [flows[f] EXCEPT !.pc = "SetBody", !.now = now,
                                         !.returnMsg = n.mpl])

\* returnMsg.SetBody(rsp)
FlowSetBody(f) ==
    /\ flows[f].pc = "SetBody"
    /\ Advance(f, [flows[f] EXCEPT !.pc = "SetSign",
                       !.returnMsg = Ptr(SetBody(Deref(flows[f].returnMsg),
                                                 Deref(flows[f].answer).rsp))])

\* returnMsg.SetSign(message.Signature(returnMsg)); return returnMsg, err
FlowSetSign(f) ==
    /\ flows[f].pc = "SetSign"
    /\ LET m == Deref(flows[f].returnMsg) IN
       Finish(f, Return(flows[f].calls, Ptr(SetSign(m, Signature(m))),
                        Deref(flows[f].answer).err))

\* The caller takes the result; the flow is ready for its next call.
FlowReturn(f) ==
    /\ flows[f].pc = "done"
    /\ flows' = [flows EXCEPT ![f] = IdleFlow]

NotFlows ==
    <<handshakeVars, registryVars, bodyVars, signVars, clientVars,
    raceVars, heapVars>>

FlowsInit ==
    /\ RaceIdle
    /\ HeapIdle
    /\ flows = [f \in FlowIds |-> IdleFlow]
    /\ HandshakeIdle
    /\ RegistryIdle
    /\ BodyIdle
    /\ SignIdle
    /\ ClientIdle

FlowsNext ==
    \/ \E f \in FlowIds : FlowCall(f) /\ UNCHANGED NotFlows
    \/ \E f \in FlowIds : FlowRoute(f) /\ UNCHANGED NotFlows
    \/ \E f \in FlowIds : FlowListener(f) /\ UNCHANGED NotFlows
    \/ \E f \in FlowIds : FlowNewPayload(f) /\ UNCHANGED NotFlows
    \/ \E f \in FlowIds : FlowSetBody(f) /\ UNCHANGED NotFlows
    \/ \E f \in FlowIds : FlowSetSign(f) /\ UNCHANGED NotFlows
    \/ \E f \in FlowIds : FlowReturn(f) /\ UNCHANGED NotFlows

SpecFlows == FlowsInit /\ [][FlowsNext]_vars

\* ------------------------------------------- provider registry, goroutines
\* Register and Read called from goroutines, statement by statement.  The
\* program counter of a goroutine names the statement it is about to
\* execute; "storing" and "reading" are the map write of Register and the
\* map lookup of Read in progress.
Goroutines == {1, 2}

IdleRoutine ==
    [pc |-> "idle", name |-> "", provider |-> Nil, result |-> Nil,
     panicked |-> FALSE, raced |-> FALSE, calls |-> 0]

\* The runtime found a map read concurrent with a map write and ended the
\* program.
Crashed == \E g \in DOMAIN routines : routines[g].pc = "fatal"

Storing(g) == routines[g].pc = "storing"

Reading(g) == routines[g].pc = "reading"

\* Goroutine g goes on with the given record.
Goes(g, next) == routines' = [routines EXCEPT ![g] = next]

\* A goroutine calls Register(name, provider).
GoRegister(g) ==
    /\ ~Crashed
    /\ routines[g].pc = "idle"
    /\ routines[g].calls < MaxGoroutineCalls
    /\ \E name \in ProviderKeys, provider \in ProviderArgs :
        Goes(g, [IdleRoutine EXCEPT !.pc = "Lock", !.name = name,
                                    !.provider = provider,
                                    !.calls = routines[g].calls + 1])
    /\ UNCHANGED <<providers, providersMu>>

\* A goroutine calls Read(key).
GoRead(g) ==
    /\ ~Crashed
    /\ routines[g].pc = "idle"
    /\ routines[g].calls < MaxGoroutineCalls
    /\ \E key \in ProviderKeys :
        Goes(g, [IdleRoutine EXCEPT !.pc = "Read", !.name = key,
                                    !.calls = routines[g].calls + 1])
    /\ UNCHANGED <<providers, providersMu>>

\* providersMu.Lock(): waits until no goroutine holds the lock.
RegisterLock(g) ==
    /\ ~Crashed
    /\ routines[g].pc = "Lock"
    /\ providersMu = 0
    /\ providersMu' = g
    /\ Goes(g, [routines[g] EXCEPT !.pc = "checkNil"])
    /\ UNCHANGED providers

\* if provider == nil { panic }
RegisterCheckNil(g) ==
    /\ ~Crashed
    /\ routines[g].pc = "checkNil"
    /\ IF routines[g].provider = Nil
       THEN Goes(g, [routines[g] EXCEPT !.pc = "Unlock", !.panicked = TRUE])
       ELSE Goes(g, [routines[g] EXCEPT !.pc = "checkDup"])
    /\ UNCHANGED <<providers, providersMu>>

\* if _, dup := providers[name]; dup { panic }
RegisterCheckDup(g) ==
    /\ ~Crashed
    /\ routines[g].pc = "checkDup"
    /\ IF Lookup(providers, routines[g].name) # Nil
       THEN Goes(g, [routines[g] EXCEPT !.pc = "Unlock", !.panicked = TRUE])
       ELSE Goes(g, [routines[g] EXCEPT !.pc = "store"])
    /\ UNCHANGED <<providers, providersMu>>

\* providers[name] = provider begins: a lookup in progress now overlaps a
\* write.
RegisterStoreBegin(g) ==
    /\ ~Crashed
    /\ routines[g].pc = "store"
    /\ routines' =
           [h \in DOMAIN routines |->
                IF h = g THEN [routines[g] EXCEPT !.pc = "storing"]
                ELSE IF Reading(h) THEN [routines[h] EXCEPT !.raced = TRUE]
                ELSE routines[h]]
    /\ UNCHANGED <<providers, providersMu>>

\* providers[name] = provider is done.
RegisterStoreEnd(g) ==
    /\ ~Crashed
    /\ Storing(g)
    /\ providers' = providers
                    \cup {<<routines[g].name, Deref(routines[g].provider)>>}
    /\ Goes(g, [routines[g] EXCEPT !.pc = "Unlock"])
    /\ UNCHANGED providersMu

\* The deferred providersMu.Unlock(), also on a panic; Register is over.
RegisterUnlock(g) ==
    /\ ~Crashed
    /\ routines[g].pc = "Unlock"
    /\ providersMu' = 0
    /\ Goes(g, [routines[g] EXCEPT !.pc = "idle"])
    /\ UNCHANGED providers

\* p := providers[key] begins, whoever holds providersMu.
ReadBegin(g) ==
    /\ ~Crashed
    /\ routines[g].pc = "Read"
    /\ Goes(g, [routines[g] EXCEPT
                    !.pc = "reading",
                    !.raced = \E h \in DOMAIN routines : Storing(h)])
    /\ UNCHANGED <<providers, providersMu>>

\* What a lookup that overlapped a write may give: the entry as it is now,
\* no entry, or the provider a goroutine is storing under the key.
RacedLookups(key) ==
    {Nil, Lookup(providers, key)}
    \cup {routines[h].provider :
              h \in {w \in DOMAIN routines :
                         Storing(w) /\ routines[w].name = key}}

\* p := providers[key] is done; return p.  A lookup that overlapped a write
\* is a data race: it gives one of RacedLookups, or the runtime ends the
\* program.
ReadEnd(g) ==
    /\ ~Crashed
    /\ Reading(g)
    /\ IF routines[g].raced
       THEN \/ \E p \in RacedLookups(routines[g].name) :
                  Goes(g, [routines[g] EXCEPT !.pc = "idle", !.result = p])
            \/ Goes(g, [routines[g] EXCEPT !.pc = "fatal"])
       ELSE Goes(g, [routines[g] EXCEPT
                         !.pc = "idle",
                         !.result = Lookup(providers, routines[g].name)])
    /\ UNCHANGED <<providers, providersMu>>

NotRace ==
    <<handshakeVars, rlog, bodyVars, signVars, clientVars, flowVars,
    heapVars>>

RaceInit ==
    /\ providers = {}
    /\ rlog = <<>>
    /\ providersMu = 0
    /\ routines = [g \in Goroutines |-> IdleRoutine]
    /\ HandshakeIdle
    /\ BodyIdle
    /\ SignIdle
    /\ ClientIdle
    /\ FlowsIdle
    /\ HeapIdle

RaceNext ==
    \/ \E g \in Goroutines : GoRegister(g) /\ UNCHANGED NotRace
    \/ \E g \in Goroutines : GoRead(g) /\ UNCHANGED NotRace
    \/ \E g \in Goroutines : RegisterLock(g) /\ UNCHANGED NotRace
    \/ \E g \in Goroutines : RegisterCheckNil(g) /\ UNCHANGED NotRace
    \/ \E g \in Goroutines : RegisterCheckDup(g) /\ UNCHANGED NotRace
    \/ \E g \in Goroutines : RegisterStoreBegin(g) /\ UNCHANGED NotRace
    \/ \E g \in Goroutines : RegisterStoreEnd(g) /\ UNCHANGED NotRace
    \/ \E g \in Goroutines : RegisterUnlock(g) /\ UNCHANGED NotRace
    \/ \E g \in Goroutines : ReadBegin(g) /\ UNCHANGED NotRace
    \/ \E g \in Goroutines : ReadEnd(g) /\ UNCHANGED NotRace

SpecRace == RaceInit /\ [][RaceNext]_vars

\* ------------------------------------------------- envelopes at addresses
\* A *MsgPayload is an address: an index of heap, 0 for nil.  One handler
\* call at a time runs statement by statement on the envelope at frame.mpl;
\* frame.given is that envelope as it was when the call began.
IdleFrame ==
    [pc |-> "idle", entry |-> "", routine |-> "", mpl |-> 0, given |-> Nil,
     calls |-> <<>>, answer |-> Nil, returnMsg |-> 0, result |-> Nil,
     updated |-> {}]

\* The memory after the envelope v is written at the address a.
Store(h, a, v) ==
    IF a = Len(h) + 1 THEN Append(h, v) ELSE [h EXCEPT ![a] = v]

\* Faulty variant of NewPayloadAddress: the reply is built in the envelope
\* it is derived from.
NewPayloadInPlace(h, mpl) == mpl

\* The address of the envelope NewPayload returns: mpl := &MsgPayload{...}
\* is a new envelope.
NewPayloadAddress(h, mpl) == Len(h) + 1

\* The envelope of the call in progress, as it is in memory.
HeapInbound == heap[frame.mpl]

\* The transport calls HandleNew or HandleAck with an envelope it has just
\* decoded, or with one that is in memory already.
HeapCall ==
    /\ frame.pc = "idle"
    /\ \E entry \in HandlerOps :
        \/ /\ Len(heap) + 2 <= MaxEnvelopes
           /\ \E cat \in {NOTICE, SIMPLEX, DUPLEX},
                 phase \in {SenderReq, ReceiverAck, SenderAck},
                 b \in {Nil, NewMessageBody} :
               LET e == Payload(cat, "ping", "m1", "q1", "q2", "q1", b, 1,
                                phase, "") IN
               /\ heap' = Append(heap, e)
               /\ frame' = [IdleFrame EXCEPT !.pc = "route", !.entry = entry,
                                !.mpl = Len(heap) + 1, !.given = Ptr(e)]
        \/ /\ Len(heap) + 1 <= MaxEnvelopes
           /\ \E a \in 1..Len(heap) :
               /\ heap' = heap
               /\ frame' = [IdleFrame EXCEPT !.pc = "route", !.entry = entry,
                                !.mpl = a, !.given = Ptr(heap[a])]

HeapFinish(result) ==
    frame' = [frame EXCEPT !.pc = "done", !.result = Ptr(result)]

\* The entry point picks the routine; the routine checks the phase and
\* converts the envelope.
HeapRoute ==
    /\ frame.pc = "route"
    /\ LET r == Route(frame.entry, HeapInbound) IN
       IF r.err # NoErr THEN HeapFinish(Return(<<>>, Nil, r.err))
       ELSE IF HeapInbound.Phase # RequiredPhase(r.routine)
       THEN HeapFinish(Return(<<>>, Nil, ErrInvalidPhase))
       ELSE IF Conversion(r.routine, HeapInbound).err # NoErr
       THEN HeapFinish(Return(<<>>, Nil,
                              Conversion(r.routine, HeapInbound).err))
       ELSE frame' = [frame EXCEPT !.pc = "listener", !.routine = r.routine]
    /\ heap' = heap

\* The routine calls the listener and looks at rsp.
HeapListener ==
    /\ frame.pc = "listener"
    /\ \E answer \in FlowAnswers :
        LET calls == <<CallbackOf(frame.routine, HeapInbound)>>
            called == [frame EXCEPT !.calls = calls, !.answer = Ptr(answer)]
        IN
        IF ReplyPhase(frame.routine) = Nil \/ answer.rsp = Nil
        THEN frame' = [called EXCEPT
                           !.pc = "done",
                           !.result = Ptr(Return(calls, Nil, answer.err))]
        ELSE frame' = [called EXCEPT !.pc = "NewPayload"]
    /\ heap' = heap

\* returnMsg := message.NewPayload(mpl, phase)
HeapNewPayload ==
    /\ frame.pc = "NewPayload"
    /\ \E now \in Times :
        LET n == NewPayload(HeapInbound, Deref(ReplyPhase(frame.routine)),
                            now)
            a == NewPayloadAddress(heap, frame.mpl)
        IN
        IF n.panicked
        THEN /\ HeapFinish(Panic(frame.calls))
             /\ heap' = heap
        ELSE /\ heap' = Store(heap, a, Deref(n.mpl))
             /\ frame' = [frame EXCEPT !.pc = "SetBody", !.returnMsg = a]

\* returnMsg.SetBody(rsp)
HeapSetBody ==
    /\ frame.pc = "SetBody"
    /\ heap' = [heap EXCEPT ![frame.returnMsg] =
                    SetBody(@, Deref(frame.answer).rsp)]
    /\ frame' = [frame EXCEPT !.pc = "SetSign"]

\* returnMsg.SetSign(message.Signature(returnMsg)); return returnMsg, err
HeapSetSign ==
    /\ frame.pc = "SetSign"
    /\ heap' = [heap EXCEPT ![frame.returnMsg] = SetSign(@, Signature(@))]
    /\ HeapFinish(Return(frame.calls, Ptr(frame.returnMsg),
                         Deref(frame.answer).err))

\* The caller has the reply and sets another body in it.
CallerSetBody ==
    /\ frame.pc = "done"
    /\ frame.returnMsg # 0
    /\ "Body" \notin frame.updated
    /\ heap' = [heap EXCEPT ![frame.returnMsg] =
                    SetBody(@, Add(NewMessageBody, "b", "x"))]
    /\ frame' = [frame EXCEPT !.updated = @ \cup {"Body"}]

\* The caller has the reply and signs it again.
CallerSetSign ==
    /\ frame.pc = "done"
    /\ frame.returnMsg # 0
    /\ "Sign" \notin frame.updated
    /\ heap' = [heap EXCEPT ![frame.returnMsg] = SetSign(@, Signature(@))]
    /\ frame' = [frame EXCEPT !.updated = @ \cup {"Sign"}]

\* The call is over; the envelopes stay in memory.
HeapReturn ==
    /\ frame.pc = "done"
    /\ frame' = IdleFrame
    /\ heap' = heap

NotHeap ==
    <<handshakeVars, registryVars, bodyVars, signVars, clientVars, flowVars,
    raceVars>>

HeapInit ==
    /\ heap = <<>>
    /\ frame = IdleFrame
    /\ HandshakeIdle
    /\ RegistryIdle
    /\ BodyIdle
    /\ SignIdle
    /\ ClientIdle
    /\ FlowsIdle
    /\ RaceIdle

HeapNext ==
    \/ HeapCall /\ UNCHANGED NotHeap
    \/ HeapRoute /\ UNCHANGED NotHeap
    \/ HeapListener /\ UNCHANGED NotHeap
    \/ HeapNewPayload /\ UNCHANGED NotHeap
    \/ HeapSetBody /\ UNCHANGED NotHeap
    \/ HeapSetSign /\ UNCHANGED NotHeap
    \/ CallerSetBody /\ UNCHANGED NotHeap
    \/ CallerSetSign /\ UNCHANGED NotHeap
    \/ HeapReturn /\ UNCHANGED NotHeap

SpecHeap == HeapInit /\ [][HeapNext]_vars

\* ================================================================ claims
\* The last operation was a handler call; In is the envelope it was given.
Handled == last.op \in HandlerOps

In == Deref(last.in)

Out == Deref(last.reply)

DefinedCategories == {NOTICE, SIMPLEX, DUPLEX}

DefinedPhases == {SenderReq, ReceiverAck, SenderAck}

\* The six legal (entry point, category, phase) triples of the handshake table.
Legal(op, cat, phase) ==
    \/ op = "HandleNew" /\ cat \in DefinedCategories /\ phase = SenderReq
    \/ op = "HandleAck" /\ cat = SIMPLEX /\ phase = ReceiverAck
    \/ op = "HandleAck" /\ cat = DUPLEX /\ phase \in {ReceiverAck, SenderAck}

IllegalCall ==
    /\ Handled
    /\ In.Category \in DefinedCategories
    /\ In.Phase \in DefinedPhases
    /\ ~Legal(last.op, In.Category, In.Phase)

C2_RejectedCallInvokesNoListener ==
    Handled =>
        /\ ~Legal(last.op, In.Category, In.Phase) => Len(last.calls) = 0
        /\ last.err \in {ErrInvalidPhase, ErrInvalidCategory} =>
               Len(last.calls) = 0

C2_Witness ==
    /\ last.op = "HandleNew" /\ In.Category = NOTICE /\ In.Phase = SenderAck
    /\ last.err = ErrInvalidPhase
    /\ last.calls = <<>>

\* The envelope carries a signature other than the one recomputed over its
\* fields (recomputing needs a body to serialise).
Tampered(mpl) == mpl.Body # Nil /\ mpl.Sign # Signature(mpl)

\* C3 (as claimed): a handler given an envelope whose carried signature differs
\* from the recomputed one rejects it and invokes no Listener callback.
C3_TamperedEnvelopeRejected ==
    Handled /\ Tampered(In) =>
        last.err # NoErr /\ last.calls = <<>> /\ last.reply = Nil

\* C4: HandleNew on a NOTICE envelope at SENDER_REQ invokes OnReceived exactly
\* once, with a NoticeMessage carrying the envelope's genre and msgId and its
\* dstNewQueue as destination, and returns no envelope whatever the listener
\* answers.
C4_NoticeDeliveredOnceNoReply ==
    last.op = "HandleNew" /\ In.Category = NOTICE /\ In.Phase = SenderReq =>
        /\ ~last.panicked
        /\ Len(last.calls) = 1
        /\ last.calls[1].cb = "OnReceived"
        /\ last.calls[1].msg.kind = "NoticeMessage"
        /\ last.calls[1].msg.genre = In.Genre
        /\ last.calls[1].msg.msgId = In.MsgId
        /\ last.calls[1].msg.Destination = In.DstNewQueue
        /\ last.reply = Nil

C4_Witness ==
    /\ last.op = "HandleNew" /\ In.Category = NOTICE /\ In.Phase = SenderReq
    /\ In.SrcAckQueue # In.DstNewQueue
    /\ Deref(last.answer).rsp # Nil
    /\ Deref(last.answer).err = ErrListener
    /\ last.reply = Nil
\* The listener was invoked and answered with a reply body.
Answered == last.answer # Nil /\ Deref(last.answer).rsp # Nil

\* C5 (as claimed): HandleNew on a SIMPLEX envelope at SENDER_REQ invokes the
\* listener once and, when it answers with a reply body, returns an envelope
\* at RECEIVER_ACK with the same msgId, that body and the signature of its
\* final fields; HandleAck on that reply invokes OnRecipientAckReceived
\* exactly once and returns no envelope.
C5_SimplexRoundTrip ==
    /\ last.op = "HandleNew" /\ In.Category = SIMPLEX /\ In.Phase = SenderReq =>
           /\ Len(last.calls) = 1
           /\ Answered =>
                  /\ last.reply # Nil
                  /\ Out.Phase = ReceiverAck
                  /\ Out.MsgId = In.MsgId
                  /\ Out.Body = Deref(last.answer).rsp
                  /\ Out.Sign = Signature(Out)
    /\ /\ last.op = "HandleAck"
       /\ Len(chain) = 2
       /\ chain[1].entry = "HandleNew"
       /\ chain[1].category = SIMPLEX
       /\ chain[1].reply # Nil
       => /\ CallbackNames(last.calls) = <<"OnRecipientAckReceived">>
          /\ last.reply = Nil

\* The handshake in chain began with HandleNew on a DUPLEX envelope at
\* SENDER_REQ.
DuplexCycle ==
    /\ Len(chain) >= 1
    /\ chain[1].entry = "HandleNew"
    /\ chain[1].category = DUPLEX
    /\ chain[1].phase = SenderReq

\* C6 (as claimed): in a DUPLEX handshake run as HandleNew, HandleAck,
\* HandleAck with a listener that answers with a reply body, the calls invoke
\* OnReceived, OnRecipientAckReceived, OnSenderAckReceived, one each; the first
\* two return one envelope at the next phase and the third returns none.
C6_DuplexFullCycle ==
    DuplexCycle =>
        /\ chain[1].cbs = <<"OnReceived">>
        /\ chain[1].rsp =>
               /\ chain[1].reply # Nil
               /\ Deref(chain[1].reply).phase = ReceiverAck
        /\ Len(chain) >= 2 /\ chain[1].reply # Nil
              /\ chain[2].entry = "HandleAck" =>
               /\ chain[2].cbs = <<"OnRecipientAckReceived">>
               /\ chain[2].rsp =>
                      /\ chain[2].reply # Nil
                      /\ Deref(chain[2].reply).phase = SenderAck
        /\ Len(chain) >= 3 /\ chain[1].reply # Nil /\ chain[2].reply # Nil
              /\ chain[2].entry = "HandleAck" /\ chain[3].entry = "HandleAck" =>
               /\ chain[3].cbs = <<"OnSenderAckReceived">>
               /\ chain[3].reply = Nil

\* C7: every envelope handed out, by NoticePayload, SimplexPayload,
\* DuplexPayload or NewPayload, or as the reply of HandleNew or HandleAck,
\* carries the signature computed over its own fields.
C7_HandedEnvelopeIsSigned ==
    last.op \in HandlerOps \cup BuilderOps /\ last.reply # Nil =>
        /\ Out.Body # Nil
        /\ Out.Sign = Signature(Out)

C7_Witness ==
    /\ last.op = "HandleAck"
    /\ last.reply # Nil
    /\ Out.Body # In.Body
    /\ Out.SendTime # In.SendTime
    /\ Out.Sign = Signature(Out)

\* C8: SendQueueName depends on the phase only: dstNewQueue at SENDER_REQ,
\* srcAckQueue at RECEIVER_ACK, dstAckQueue at SENDER_ACK, and for any other
\* phase an error and no queue name.
C8_SendQueueByPhase ==
    last.op = "SendQueueName" =>
        /\ In.Phase = SenderReq =>
               last.queue = In.DstNewQueue /\ last.err = NoErr
        /\ In.Phase = ReceiverAck =>
               last.queue = In.SrcAckQueue /\ last.err = NoErr
        /\ In.Phase = SenderAck =>
               last.queue = In.DstAckQueue /\ last.err = NoErr
        /\ In.Phase \notin DefinedPhases =>
               last.queue = "" /\ last.err # NoErr

C8_Witness ==
    /\ last.op = "SendQueueName"
    /\ In.Phase = UnknownPhase
    /\ In.Category = NOTICE
    /\ last.err = ErrInvalidPhase
    /\ last.queue = ""

\* The variant kind that belongs to a category.
KindOf(cat) ==
    CASE cat = NOTICE -> "NoticeMessage"
      [] cat = SIMPLEX -> "SimplexMessage"
      [] cat = DUPLEX -> "DuplexMessage"
      [] OTHER -> "none"

Conv == Deref(last.conv)

\* The fields every variant takes from the envelope.
SameHeader(m, mpl) ==
    m.genre = mpl.Genre /\ m.msgId = mpl.MsgId /\ m.Body = mpl.Body

\* C9: a conversion fails with the category-mismatch error when the envelope's
\* category is not the variant's, and otherwise succeeds with genre, msgId,
\* body and queue fields taken from the envelope; a handler never gives a
\* listener a variant of a category other than the envelope's.
C9_ConvertChecksCategory ==
    /\ last.op = "ConvertToNotice" =>
           IF In.Category # NOTICE THEN last.err = ErrCategoryMismatch
           ELSE /\ last.err = NoErr
                /\ Conv.kind = "NoticeMessage"
                /\ SameHeader(Conv, In)
                /\ Conv.Destination = In.DstNewQueue
    /\ last.op = "ConvertToSimplex" =>
           IF In.Category # SIMPLEX THEN last.err = ErrCategoryMismatch
           ELSE /\ last.err = NoErr
                /\ Conv.kind = "SimplexMessage"
                /\ SameHeader(Conv, In)
                /\ Conv.Source = In.SrcAckQueue
                /\ Conv.Destination = In.DstNewQueue
    /\ last.op = "ConvertToDuplex" =>
           IF In.Category # DUPLEX THEN last.err = ErrCategoryMismatch
           ELSE /\ last.err = NoErr
                /\ Conv.kind = "DuplexMessage"
                /\ SameHeader(Conv, In)
                /\ Conv.Source = In.SrcAckQueue
                /\ Conv.DestinationNew = In.DstNewQueue
                /\ Conv.DestinationAck = In.DstAckQueue
    /\ Handled =>
           \A i \in 1..Len(last.calls) :
               last.calls[i].cb = "OnReceived" =>
                   last.calls[i].msg.kind = KindOf(In.Category)

C9_Witness ==
    /\ last.op = "ConvertToSimplex"
    /\ In.Category = DUPLEX
    /\ last.err = ErrCategoryMismatch

\* The calls that may produce a reply envelope.
ReplyingCall ==
    \/ /\ last.op = "HandleNew"
       /\ In.Category \in {SIMPLEX, DUPLEX}
       /\ In.Phase = SenderReq
    \/ /\ last.op = "HandleAck"
       /\ In.Category = DUPLEX
       /\ In.Phase = ReceiverAck

\* C10 (as claimed): on a replying call an envelope is produced if and only if
\* the listener answers with a non-empty reply body.
C10_ReplyIffNonEmptyBody ==
    ReplyingCall =>
        (last.reply # Nil <=>
            Answered /\ Deref(Deref(last.answer).rsp) # {})

\* A handler call on one of the six legal triples.
LegalCall ==
    /\ Handled
    /\ Legal(last.op, In.Category, In.Phase)

\* C11 (as claimed): every handler call on a legal envelope invokes exactly
\* one listener callback, once, and returns to its caller the error that
\* callback gave, unchanged, with or without a reply body.
C11_ListenerErrorReturnedUnchanged ==
    LegalCall =>
        /\ Len(last.calls) = 1
        /\ last.answer # Nil
        /\ ~last.panicked
        /\ last.err = Deref(last.answer).err

\* The header fields a handshake keeps from envelope to envelope.
SameIdentity(a, b) ==
    /\ a.Category = b.Category
    /\ a.Genre = b.Genre
    /\ a.MsgId = b.MsgId
    /\ a.SrcAckQueue = b.SrcAckQueue
    /\ a.DstNewQueue = b.DstNewQueue
    /\ a.DstAckQueue = b.DstAckQueue

\* C20: every reply envelope a handler returns has the category, genre,
\* msgId, srcAckQueue, dstNewQueue and dstAckQueue of the inbound envelope it
\* answers, and all handler calls of one handshake chain see one msgId and
\* one category.
C20_HandshakeIdentityPreserved ==
    /\ (Handled /\ last.reply # Nil) => SameIdentity(Out, In)
    /\ \A i \in 1..Len(chain) :
           /\ chain[i].msgId = chain[1].msgId
           /\ chain[i].category = chain[1].category
           /\ chain[i].reply # Nil =>
                  Deref(chain[i].reply).msgId = chain[1].msgId

C20_Witness ==
    /\ Handled
    /\ last.reply # Nil
    /\ Len(chain) = 2
    /\ Out.Phase = SenderAck
    /\ In.SrcAckQueue # In.DstNewQueue

\* The first call that registered key successfully before position n of the
\* log, as a provider value; nil when there is none.
FirstRegistered(key, n) ==
    LET hits == {i \in 1..(n - 1) :
                    /\ rlog[i].op = "Register"
                    /\ rlog[i].key = key
                    /\ ~rlog[i].panicked} IN
    IF hits = {} THEN Nil
    ELSE rlog[CHOOSE i \in hits : \A j \in hits : i <= j].arg

\* C16: the registry is first-writer-wins.  Every Read of a key returns the
\* provider of the first successful Register of that key, and no provider
\* when there was none; a Register of a key already registered, or of a nil
\* provider, panics and leaves the map as it was.
C16_RegistryFirstWriterWins ==
    \A n \in 1..Len(rlog) :
        LET c == rlog[n] IN
        /\ c.op = "Read" => c.result = FirstRegistered(c.key, n)
        /\ c.op = "Register" =>
               /\ c.panicked <=>
                      (c.arg = Nil \/ FirstRegistered(c.key, n) # Nil)
               /\ c.panicked => c.after = c.before
               /\ ~c.panicked => Lookup(c.after, c.key) = c.arg

C16_Witness ==
    /\ Len(rlog) = 4
    /\ rlog[1].op = "Register" /\ ~rlog[1].panicked
    /\ rlog[2].op = "Register" /\ rlog[2].key = rlog[1].key
    /\ rlog[2].arg \notin {Nil, rlog[1].arg} /\ rlog[2].panicked
    /\ rlog[3].op = "Read" /\ rlog[3].key = rlog[1].key
    /\ rlog[3].result = rlog[1].arg
    /\ rlog[4].op = "Read" /\ rlog[4].key # rlog[1].key
    /\ rlog[4].result = Nil

\* The mapping the first n calls of the log end with: for each key the value
\* of the last Add of that key.
FinalMapping(n) ==
    {<<mlog[i].key, mlog[i].value>> : i \in
        {i \in 1..n :
            /\ mlog[i].op = "Add"
            /\ \A j \in (i + 1)..n :
                   ~(mlog[j].op = "Add" /\ mlog[j].key = mlog[i].key)}}

\* C18: the body holds the final mapping of the Add calls made on it (an Add
\* of an existing key overwrites), and every ToString gives the serialization
\* of that mapping with its keys ascending, whatever the calls that led to the
\* mapping and whatever the order of the range loop; the empty body and only
\* the empty body gives the empty string.
C18_SerializationByContentOnly ==
    /\ mbody # Nil => Deref(mbody) = FinalMapping(Len(mlog))
    /\ \A n \in 1..Len(mlog) :
           mlog[n].op = "ToString" =>
               /\ mlog[n].result = BodyToString(Ptr(FinalMapping(n)))
               /\ mlog[n].result = "" <=> FinalMapping(n) = {}
               /\ \A k \in 1..Len(mlog) :
                      (mlog[k].op = "ToString"
                       /\ FinalMapping(k) = FinalMapping(n))
                          => mlog[k].result = mlog[n].result

C18_Witness ==
    /\ Len(mlog) = 4
    /\ mlog[1].op = "Add" /\ mlog[1].key = "b" /\ mlog[1].value = "x"
    /\ mlog[2].op = "Add" /\ mlog[2].key = "a"
    /\ mlog[3].op = "Add" /\ mlog[3].key = "b" /\ mlog[3].value = "y"
    /\ mlog[4].op = "ToString" /\ mlog[4].order = <<"b", "a">>
    /\ mlog[4].result = "{\"a\":\"x\",\"b\":\"y\"}"

\* C19 (as claimed): an envelope signed twice has the same signature both
\* times, and two envelopes that differ in exactly one of body, phase,
\* sendTime, srcAckQueue, dstAckQueue, dstNewQueue, genre and msgId have
\* different signatures, for all values of those fields.
C19_SignatureSensitiveToEveryField ==
    svariant # Nil =>
        IF Deref(svariant).field = "none"
        THEN Deref(svariant).mpl.Sign = Deref(sbase).Sign
        ELSE Deref(svariant).mpl.Sign # Deref(sbase).Sign

\* The last call on the client and the client it was made on.
Call == Deref(clast)

Called(op) == clast # Nil /\ Call.op = op

Before == Deref(Call.before)

KnownNodes == {"biz", "fund", "opt"}

\* The name matches the client's pattern and its node segment is known.
NameAccepted(c, name) ==
    LET m == FindStringSubmatch(c.queueNamePattern, name) IN
    m # Nil /\ Deref(m)[2] \in KnownNodes

\* C12 (as claimed): Send calls provider.Send exactly when every queue name
\* of the message matches the client's pattern with a known node segment;
\* otherwise it returns the InvalidQueueName error without calling it.
C12_SendOnlyValidQueueNames ==
    Called("Send") =>
        IF \A i \in 1..Len(NameList(Call.arg)) :
               NameAccepted(Before, NameList(Call.arg)[i])
        THEN Call.res.sent
        ELSE ~Call.res.sent /\ Call.res.err = ErrQueueName

\* C13: a Start on a client that was started before returns the
\* already-started error and no closer, does not panic and issues no Listen
\* call; no call on a started client leaves it not started.
C13_StartTakesEffectOnce ==
    /\ (Called("Start") /\ Before.started) =>
           /\ Call.res.err = ErrStarted
           /\ Call.res.closer = Nil
           /\ ~Call.res.panicked
           /\ Deref(client).provider.listens = Before.provider.listens
    /\ (clast # Nil /\ Call.before # Nil /\ Before.started) =>
           Deref(client).started
    /\ Called("Start") => Deref(client).started

C13_Witness ==
    /\ Called("Start")
    /\ Before.started
    /\ Len(Before.provider.listens) = 2
    /\ ~Before.provider.listens[2].ok
    /\ Call.arg # <<>>
    /\ Call.res.err = ErrStarted

\* The processor the list registers last for the genre, nil when none.
LastOfType(processors, genre) ==
    LET hits == {i \in 1..Len(processors) : processors[i].type = genre} IN
    IF hits = {} THEN Nil
    ELSE Ptr(processors[CHOOSE i \in hits : \A j \in hits : j <= i].impl)

\* C14: AddProcessor before Start maps each processor's type to it, the
\* later of two processors of one type winning, and leaves other genres as
\* they were; AddProcessor after Start, and every other call on a started
\* client, leaves the processor map unchanged.
C14_ProcessorsFrozenByStart ==
    /\ (Called("AddProcessor") /\ ~Before.started) =>
           \A genre \in Genres :
               ProcessorOf(Deref(client), genre) =
                   IF LastOfType(Call.arg, genre) # Nil
                   THEN LastOfType(Call.arg, genre)
                   ELSE ProcessorOf(Before, genre)
    /\ (clast # Nil /\ Call.before # Nil /\ Before.started) =>
           Deref(client).processorMap = Before.processorMap
    /\ Called("Start") => Deref(client).processorMap = Before.processorMap

C14_Witness ==
    /\ Called("AddProcessor")
    /\ Before.started
    /\ Before.processorMap = {<<"ping", "A">>}
    /\ Call.arg = <<[type |-> "pay", impl |-> "A"], [type |-> "ping", impl |-> "B"]>>
    /\ Deref(client).processorMap = {<<"ping", "A">>}

ListenerCallbacks ==
    {"OnReceived", "OnRecipientAckReceived", "OnSenderAckReceived"}

\* C15 (as claimed): a listener callback for a genre without a registered
\* processor invokes no processor method, produces no reply body and returns
\* the NoProcessorRegistered error.
C15_UnregisteredGenreIsAnError ==
    (clast # Nil /\ Call.op \in ListenerCallbacks
     /\ ProcessorOf(Before, Call.arg.genre) = Nil) =>
        /\ ~Call.res.invoked
        /\ Call.res.rsp = Nil
        /\ Call.res.err = ErrNoProcessor

\* What the call of flow f gives when it runs alone, from its envelope, the
\* answer its listener gave and the time it read.
Alone(f, listener, now) ==
    IF flows[f].entry = "HandleNew"
    THEN HandleNew(Deref(flows[f].mpl), listener, now)
    ELSE HandleAck(Deref(flows[f].mpl), listener, now)

\* C17: whatever the interleaving of the steps of two handler calls of
\* handshakes with different msgIds, each call returns what it returns when
\* it runs alone: the same callbacks, error and reply envelope (or panic).
C17_FlowsDoNotInterfere ==
    \A f \in FlowIds :
        flows # <<>> /\ flows[f].pc = "done" =>
            LET result == Deref(flows[f].result) IN
            IF flows[f].answer = Nil
            THEN \A listener \in FlowAnswers, now \in Times :
                     result = Alone(f, listener, now)
            ELSE IF flows[f].now = 0
            THEN \A now \in Times :
                     result = Alone(f, Deref(flows[f].answer), now)
            ELSE result = Alone(f, Deref(flows[f].answer), flows[f].now)

C17_Witness ==
    /\ flows # <<>>
    /\ flows[1].pc = "done" /\ flows[1].mixed
    /\ Deref(flows[1].result).reply # Nil
    /\ Deref(Deref(flows[1].result).reply).Phase = SenderAck
    /\ flows[2].pc = "SetSign" /\ flows[2].mixed
    /\ Deref(flows[2].returnMsg).Category = SIMPLEX

\* The outbound constructors.
OutboundOps == {"NoticePayload", "SimplexPayload", "DuplexPayload"}

\* C25 (as claimed): an outbound constructor always returns a signed
\* SENDER_REQ envelope, also for a variant whose body was never set, and a
\* replying handler call on an envelope without a body whose listener
\* answers with a reply body returns the reply envelope.
C25_MissingBodyNeverAborts ==
    /\ last.op \in OutboundOps =>
           /\ ~last.panicked
           /\ last.reply # Nil
           /\ Out.Phase = SenderReq
    /\ (Handled /\ ReplyingCall /\ In.Body = Nil /\ Answered) =>
           /\ ~last.panicked
           /\ last.reply # Nil

\* The handler calls a handshake allows for a category.
MaxHandlerCalls(cat) ==
    CASE cat = SIMPLEX -> 2
      [] cat = DUPLEX -> 3
      [] OTHER -> 1

NextPhase(phase) == IF phase = SenderReq THEN ReceiverAck ELSE SenderAck

\* The chain began with HandleNew on a SENDER_REQ envelope and went on with
\* HandleAck on each reply.
ChainInOrder ==
    /\ Len(chain) >= 1
    /\ chain[1].entry = "HandleNew"
    /\ chain[1].phase = SenderReq
    /\ \A i \in 2..Len(chain) : chain[i].entry = "HandleAck"

\* C24: an outbound constructor hands out envelopes at SENDER_REQ only; a
\* chain that feeds each reply to the next handler, HandleNew first and
\* HandleAck afterwards, has at most 1 call for NOTICE, 2 for SIMPLEX and 3
\* for DUPLEX, the last allowed call returning no envelope, and each reply
\* is at the phase that follows the inbound one; no handler call returns an
\* envelope at SENDER_REQ, nor a SIMPLEX envelope at SENDER_ACK.
C24_HandshakeTerminates ==
    /\ (last.op \in OutboundOps /\ last.reply # Nil) => Out.Phase = SenderReq
    /\ ChainInOrder =>
           /\ Len(chain) <= MaxHandlerCalls(chain[1].category)
           /\ Len(chain) = MaxHandlerCalls(chain[1].category) =>
                  chain[Len(chain)].reply = Nil
           /\ \A i \in 1..Len(chain) :
                  chain[i].reply # Nil =>
                      Deref(chain[i].reply).phase = NextPhase(chain[i].phase)
    /\ \A i \in 1..Len(chain) :
           chain[i].reply # Nil =>
               /\ Deref(chain[i].reply).phase # SenderReq
               /\ ~(chain[i].category = SIMPLEX
                     /\ Deref(chain[i].reply).phase = SenderAck)

C24_Witness ==
    /\ ChainInOrder
    /\ Len(chain) = 3
    /\ chain[1].category = DUPLEX
    /\ chain[2].reply # Nil
    /\ chain[3].cbs = <<"OnSenderAckReceived">>
    /\ chain[3].reply = Nil
    /\ ~chain[3].panicked

\* The Listen calls the last Start made, in order.
Subscribed ==
    LET before == Before.provider.listens
        after == Deref(client).provider.listens
    IN SubSeq(after, Len(before) + 1, Len(after))

SubscribedQueues == [i \in 1..Len(Subscribed) |-> Subscribed[i].queue]

\* A Start that got past the started check.
StartRan == Called("Start") /\ ~Before.started

\* C22 (as claimed): Start subscribes to the single queue of a client with
\* 1 partition, to the queues p0..p{n-1}, each once, of a client with n > 1
\* partitions and no list, and to the queues of the listed indexes when a
\* list is given; a list with an index outside 0..n-1 is rejected and
\* nothing is subscribed.
C22_StartSubscribesExactly ==
    StartRan =>
        LET c == Before
            n == c.partitions
            list == Call.arg
            listed == {list[i] : i \in 1..Len(list)}
            InRange(v) == 0 <= v /\ v < n
        IN /\ (n = 1 /\ ~Call.res.panicked) =>
                  SubscribedQueues = <<BuildQueueName(c, c.systemId)>>
           /\ (n > 1 /\ list = <<>>) =>
                  SubscribedQueues =
                      [i \in 1..n |->
                           BuildQueueNameByPartition(c, c.systemId, i - 1)]
           /\ (n > 1 /\ list # <<>> /\ \A v \in listed : InRange(v)) =>
                  {SubscribedQueues[i] : i \in 1..Len(Subscribed)} =
                      {BuildQueueNameByPartition(c, c.systemId, v) :
                           v \in listed}
           /\ (n > 1 /\ \E v \in listed : ~InRange(v)) =>
                  /\ Call.res.panicked \/ Call.res.err # NoErr
                  /\ Subscribed = <<>>

\* C26 (as claimed): a Start that makes several Listen calls returns an
\* error when at least one of them failed, whatever its position.
C26_ListenFailureReported ==
    (/\ StartRan
     /\ Len(Subscribed) >= 2
     /\ \E i \in 1..Len(Subscribed) : ~Subscribed[i].ok) =>
        Call.res.err # NoErr

\* Goroutine g holds providersMu.
HoldsLock(g) == providersMu = g

\* C23 (as claimed): a goroutine that writes or looks up the registry map
\* holds providersMu, and no lookup of Read is in progress while a write of
\* Register is.
C23_RegistryAccessUnderLock ==
    /\ \A g \in DOMAIN routines :
           (Storing(g) \/ Reading(g)) => HoldsLock(g)
    /\ \A g \in DOMAIN routines, h \in DOMAIN routines :
           ~(Reading(g) /\ Storing(h))

\* A handler call is in progress or has returned.
HeapCalled == frame # <<>> /\ frame.pc # "idle"

\* C21: from the call of HandleNew / HandleAck on, whether it fails, ends
\* without a reply or returns one, the envelope it was given is in memory
\* as it was given, field by field; the reply is another envelope, and the
\* body and the signature the handler and later the caller set in the reply
\* leave the envelope given as it was.
C21_InboundNeverModified ==
    HeapCalled =>
        /\ heap[frame.mpl] = Deref(frame.given)
        /\ frame.returnMsg # 0 => frame.returnMsg # frame.mpl

C21_Witness ==
    /\ HeapCalled
    /\ frame.pc = "done"
    /\ frame.returnMsg # 0
    /\ frame.updated = {"Body", "Sign"}
    /\ heap[frame.returnMsg].Body # Deref(frame.given).Body
    /\ heap[frame.returnMsg].Sign # Deref(frame.given).Sign
    /\ heap[frame.returnMsg].Phase # Deref(frame.given).Phase
====
